---- MODULE Spec2Model ----
(***************************************************************************)
(* HVATP: the visual codec, VisualEncoder / FrameSequenceEncoder           *)
(* (visual_encoder.py) and VisualDecoder (visual_decoder.py); the acoustic *)
(* packet encoder, AudioEncoder (audio_encoder.py); and the receive loop,  *)
(* HVATPReceiver (example_transfer.py).                                    *)
(*                                                                         *)
(* Bytes are integers 0..255, byte strings are sequences.  A float         *)
(* error_correction_level is carried as an integer percentage; for every   *)
(* configuration used here int(total_symbols * level) equals               *)
(* (total_symbols * percent) \div 100.                                     *)
(*                                                                         *)
(* The Reed-Solomon codec is the reedsolo library, which is not part of    *)
(* the repository.  It is modelled by the contract the call sites rely     *)
(* on: systematic, the message split into shards of 255 - nsym bytes,      *)
(* nsym parity bytes after each shard, parity linear in the message; the   *)
(* decoder splits its input into 255-byte blocks, returns the message      *)
(* part of every block whose parity is consistent and raises otherwise.    *)
(***************************************************************************)
EXTENDS Integers, Sequences, FiniteSets, TLC

VARIABLES
    enc,        \* the VisualEncoder instance (live = FALSE: none constructed)
    dec,        \* the VisualDecoder instance, with its two counters
    pc,         \* "idle", or the name of the call that has just ended
    ret,        \* how that call ended: "ok", "None", "DecodedFrame", "raise"
    payload,    \* argument of the last encode_data call
    calls,      \* encode_frame invocations made by the last encoder call
    frames,     \* rasters returned by the last encoder call
    screen,     \* the raster the sender is displaying, with the call it is from
    result,     \* what the last decode_frame / get_success_rate call returned
    probe,      \* what the last decode_frame call was given and went through
    hist,       \* history: decode_frame calls started / that returned a frame
    scan,       \* the row-major traversal loops of encoder and decoder
    aenc,       \* the AudioEncoder instance
    aout,       \* the last AudioEncoder call: its arguments and what it returned
    rx,         \* the HVATPReceiver instance and its receive loop
    helper      \* the last direct call of a codec helper: arguments and result

vars == <<enc, dec, pc, ret, payload, calls, frames, screen, result, probe, hist, scan,
          aenc, aout, rx, helper>>

(***************************************************************************)
(* Bounds of the model.                                                    *)
(***************************************************************************)
MaxPayloadLen == 3
MaxPattern == 1
MaxDecodes == 3
MaxScreenDecodes == 1

MaxReads == 3

(***************************************************************************)
(* Program constants.                                                      *)
(***************************************************************************)
reserved_modules == 100
pattern_size == 10
center_threshold == 150

Modes == {"ROBUST", "BALANCED", "HIGH_DENSITY"}

\* EncodingMode(colors, bits_per_module)
bits_per_module(mode) ==
    CASE mode = "HIGH_DENSITY" -> 3
      [] mode = "BALANCED" -> 2
      [] mode = "ROBUST" -> 1

colors(mode) ==
    CASE mode = "HIGH_DENSITY" -> 8
      [] mode = "BALANCED" -> 4
      [] mode = "ROBUST" -> 2

\* The configurations the specification enumerates.  Neither constructor
\* checks its arguments, so every one of them can be passed.
ModuleCounts == {12, 24, 50, 151}
EccLevels == {5, 25, 50}

Min(a, b) == IF a < b THEN a ELSE b

Pow2(n) ==
    CASE n = 0 -> 1 [] n = 1 -> 2 [] n = 2 -> 4 [] n = 3 -> 8
      [] n = 4 -> 16 [] n = 5 -> 32 [] n = 6 -> 64 [] n = 7 -> 128

Zeros(n) == [i \in 1..n |-> 0]

\* Byte strings used as payloads and chunks: pattern 0 is all zero, pattern
\* p > 0 has a different byte at every position (mod 251).
PatByte(pat, i) == IF pat = 0 THEN 0 ELSE ((pat * i) % 251) + 1

Bytes(len, pat) == [i \in 1..len |-> PatByte(pat, i)]

(***************************************************************************)
(* reedsolo.RSCodec                                                        *)
(***************************************************************************)
\* RSCodec(nsym): the codec's block size is 255.  Releases of the library
\* differ on nsym >= 255: newer ones raise ValueError in the constructor,
\* older ones construct and encode with a chunk size of 255 - nsym <= 0.
RSCodecMayRaise(nsym) == nsym >= 255

RSCodecMayConstruct(nsym) == TRUE

RSChunkSize(nsym) == 255 - nsym

\* Sum of msg[lo..hi], each byte weighted by its index when w (mod 256).
RECURSIVE RSWeightedSum(_, _, _, _)
RSWeightedSum(msg, lo, hi, w) ==
    IF lo > hi THEN 0
    ELSE IF lo = hi THEN ((IF w THEN lo ELSE 1) * msg[lo]) % 256
    ELSE LET mid == (lo + hi) \div 2
         IN  (RSWeightedSum(msg, lo, mid, w) + RSWeightedSum(msg, mid + 1, hi, w)) % 256

\* nsym parity bytes of one shard; linear in the message.
RSParity(msg, nsym) ==
    LET s0 == RSWeightedSum(msg, 1, Len(msg), FALSE)
        s1 == RSWeightedSum(msg, 1, Len(msg), TRUE)
    IN  [j \in 1..nsym |-> (s1 + j * s0) % 256]

\* RSCodec.encode: range(0, len(data), chunk_size) raises for a zero step
\* and is empty for a negative one.
RSEncodeRaises(data, nsym) == RSChunkSize(nsym) = 0

RECURSIVE RSEncodeFrom(_, _, _)
RSEncodeFrom(data, nsym, start) ==
    IF start > Len(data) THEN << >>
    ELSE LET stop == Min(start + RSChunkSize(nsym) - 1, Len(data))
             chunk == SubSeq(data, start, stop)
         IN  chunk \o RSParity(chunk, nsym) \o RSEncodeFrom(data, nsym, stop + 1)

RSEncode(data, nsym) ==
    IF RSChunkSize(nsym) < 0 THEN << >> ELSE RSEncodeFrom(data, nsym, 1)

(***************************************************************************)
(* VisualEncoder                                                           *)
(***************************************************************************)
NoEncoder == [live |-> FALSE, mode |-> "BALANCED", module_count |-> 0,
              ecc |-> 0, nsym |-> 0]

VisualEncoder_calculate_total_symbols(mode, module_count) ==
    LET data_modules == module_count * module_count - reserved_modules
        bits == data_modules * bits_per_module(mode)
    IN  bits \div 8

\* parity_symbols = int(total_symbols * error_correction_level)
VisualEncoder_parity_symbols(mode, module_count, ecc) ==
    (VisualEncoder_calculate_total_symbols(mode, module_count) * ecc) \div 100

\* __init__ stores its arguments as they are.
VisualEncoder_init(mode, module_count, ecc) ==
    [live |-> TRUE, mode |-> mode, module_count |-> module_count, ecc |-> ecc,
     nsym |-> VisualEncoder_parity_symbols(mode, module_count, ecc)]

data_symbols(e) ==
    VisualEncoder_calculate_total_symbols(e.mode, e.module_count) - e.nsym

VisualEncoder_is_reserved_area(module_count, x, y) ==
    IF (x < 10 /\ y < 10) \/ (x >= module_count - 10 /\ y < 10)
       \/ (x < 10 /\ y >= module_count - 10)
    THEN TRUE
    ELSE IF x = 6 \/ y = 6
    THEN TRUE
    ELSE IF x < 20 /\ y >= 10 /\ y < 18
    THEN TRUE
    ELSE FALSE

\* Bit k (0-based, MSB first) of a byte string: format(byte, '08b').
BitAt(data, k) == (data[(k \div 8) + 1] \div Pow2(7 - (k % 8))) % 2

RECURSIVE BitsValue(_, _, _)
BitsValue(data, first, n) ==
    IF n = 0 THEN 0
    ELSE 2 * BitsValue(data, first, n - 1) + BitAt(data, first + n - 1)

\* Only the complete groups of bits_per_module bits become modules.
VisualEncoder_data_to_modules(data, bpm) ==
    [i \in 1..((8 * Len(data)) \div bpm) |-> BitsValue(data, (i - 1) * bpm, bpm)]

ToBytesOverflows(value, nbytes) ==
    value < 0 \/ value >= (IF nbytes = 3 THEN 16777216 ELSE 65536)

VisualEncoder_encode_metadata_raises(frame_id, total_frames, data_length) ==
    \/ ToBytesOverflows(frame_id, 3)
    \/ ToBytesOverflows(total_frames, 2)
    \/ ToBytesOverflows(data_length, 2)

\* A variant of _encode_metadata whose checksum is stored low byte first.
VisualEncoder_encode_metadata_checksum_little_endian(frame_id, total_frames, data_length) ==
    LET head == << frame_id \div 65536, (frame_id \div 256) % 256, frame_id % 256,
                   total_frames \div 256, total_frames % 256,
                   data_length \div 256, data_length % 256 >>
        checksum == (head[1] + head[2] + head[3] + head[4] + head[5]
                     + head[6] + head[7] + 0) % 65536
    IN  head \o << checksum % 256, checksum \div 256 >>

\* bytearray(8), three fields, then metadata[7:9] = checksum: 9 bytes.
VisualEncoder_encode_metadata(frame_id, total_frames, data_length) ==
    LET head == << frame_id \div 65536, (frame_id \div 256) % 256, frame_id % 256,
                   total_frames \div 256, total_frames % 256,
                   data_length \div 256, data_length % 256 >>
        checksum == (head[1] + head[2] + head[3] + head[4] + head[5]
                     + head[6] + head[7] + 0) % 65536
    IN  head \o << checksum \div 256, checksum % 256 >>

\* _embed_metadata: bit k goes to the 2x2 block at (10 + 2*(k mod 5),
\* 10 + 2*(k div 5)); a cell is written only if x < 20 and y < 18.
MetaRegion == (10..19) \X (10..17)

VisualEncoder_embed_metadata(metadata) ==
    [c \in MetaRegion |->
        LET k == 5 * ((c[2] - 10) \div 2) + ((c[1] - 10) \div 2)
        IN  BitAt(metadata, k)]

\* _add_finder_patterns: the corner blocks need pattern_size rows and columns
\* and, for module_count > 150, a block of pattern_size // 2 is assigned to
\* a region of 2 * (pattern_size // 2); numpy raises ValueError when the
\* shapes differ.
VisualEncoder_add_finder_patterns_raises(module_count) ==
    \/ module_count < pattern_size
    \/ /\ module_count > center_threshold
       /\ LET center == module_count \div 2
              offset == pattern_size \div 2
          IN  (center + offset) - (center - offset) # pattern_size \div 2

DataPositionTable ==
    [m \in ModuleCounts |->
        Cardinality({c \in (0..(m - 1)) \X (0..(m - 1)) :
                        ~VisualEncoder_is_reserved_area(m, c[1], c[2])})]

\* How many positions the row-major loop of encode_frame does not skip.
DataPositionCount(module_count) == DataPositionTable[module_count]

\* The data actually handed to the RS codec and measured by len(data).
\* A variant of the fit that keeps the chunk's last data_symbols bytes.
VisualEncoder_fit_data_keeps_tail(e, data) ==
    IF Len(data) > data_symbols(e)
    THEN SubSeq(data, Len(data) - data_symbols(e) + 1, Len(data))
    ELSE data \o Zeros(data_symbols(e) - Len(data))

VisualEncoder_fit_data(e, data) ==
    IF Len(data) > data_symbols(e)
    THEN SubSeq(data, 1, data_symbols(e))
    ELSE data \o Zeros(data_symbols(e) - Len(data))

VisualEncoder_stamped_length(e, data) == Len(VisualEncoder_fit_data(e, data))

VisualEncoder_encode_frame_raises(e, data, frame_id, total_frames) ==
    \/ RSEncodeRaises(VisualEncoder_fit_data(e, data), e.nsym)
    \/ VisualEncoder_add_finder_patterns_raises(e.module_count)
    \/ VisualEncoder_encode_metadata_raises(frame_id, total_frames,
                                            VisualEncoder_stamped_length(e, data))

\* The raster, as its parts: the module values at the non-reserved positions
\* in row-major order (zero where nothing was written), and the metadata.
VisualEncoder_encode_frame(e, data, frame_id, total_frames) ==
    LET fitted == VisualEncoder_fit_data(e, data)
        encoded_data == RSEncode(fitted, e.nsym)
        modules == VisualEncoder_data_to_modules(encoded_data, bits_per_module(e.mode))
        npos == DataPositionCount(e.module_count)
        metadata == VisualEncoder_encode_metadata(frame_id, total_frames,
                        VisualEncoder_stamped_length(e, data))
    IN  [mode |-> e.mode,
         module_count |-> e.module_count,
         stream |-> [i \in 1..npos |-> IF i <= Len(modules) THEN modules[i] ELSE 0],
         n_modules |-> Len(modules),
         module_idx |-> Min(Len(modules), npos),
         metadata |-> metadata,
         meta_region |-> VisualEncoder_embed_metadata(metadata)]

(***************************************************************************)
(* FrameSequenceEncoder.encode_data                                        *)
(***************************************************************************)
\* total_frames = (len(data) + data_symbols - 1) // data_symbols
FrameSequenceEncoder_total_frames(e, data) ==
    (Len(data) + data_symbols(e) - 1) \div data_symbols(e)

FrameSequenceEncoder_chunk(e, data, frame_id) ==
    LET start == frame_id * data_symbols(e)
        end == Min(start + data_symbols(e), Len(data))
    IN  SubSeq(data, start + 1, end)

FrameSequenceEncoder_call(e, data, frame_id) ==
    [data |-> FrameSequenceEncoder_chunk(e, data, frame_id),
     frame_id |-> frame_id,
     total_frames |-> FrameSequenceEncoder_total_frames(e, data)]

CallRaises(e, c) ==
    VisualEncoder_encode_frame_raises(e, c.data, c.frame_id, c.total_frames)

\* The loop ends at the first encode_frame call that raises.
FirstRaising(e, data) ==
    LET n == FrameSequenceEncoder_total_frames(e, data)
        bad == {k \in 0..(n - 1) : CallRaises(e, FrameSequenceEncoder_call(e, data, k))}
    IN  IF bad = {} THEN n ELSE CHOOSE k \in bad : \A j \in bad : k <= j

(***************************************************************************)
(* VisualDecoder                                                           *)
(***************************************************************************)
\* "Assume balanced mode (2 bits/module) for calculation"
VisualDecoder_calculate_total_symbols(expected_module_count) ==
    LET data_modules == expected_module_count * expected_module_count - reserved_modules
        bits == data_modules * 2
    IN  bits \div 8

VisualDecoder_parity_symbols(expected_module_count, ecc) ==
    (VisualDecoder_calculate_total_symbols(expected_module_count) * ecc) \div 100

VisualDecoder_init(expected_module_count, ecc) ==
    [live |-> TRUE, expected_module_count |-> expected_module_count, ecc |-> ecc,
     nsym |-> VisualDecoder_parity_symbols(expected_module_count, ecc),
     frames_attempted |-> 0, frames_successful |-> 0]

\* A variant of the predicate whose metadata clause starts at column 10.
VisualDecoder_is_reserved_area_from_column_10(expected_module_count, x, y) ==
    IF (x < 10 /\ y < 10) \/ (x >= expected_module_count - 10 /\ y < 10)
       \/ (x < 10 /\ y >= expected_module_count - 10)
    THEN TRUE
    ELSE IF x = 6 \/ y = 6
    THEN TRUE
    ELSE IF x >= 10 /\ x < 20 /\ y >= 10 /\ y < 18
    THEN TRUE
    ELSE FALSE

VisualDecoder_is_reserved_area(expected_module_count, x, y) ==
    IF (x < 10 /\ y < 10) \/ (x >= expected_module_count - 10 /\ y < 10)
       \/ (x < 10 /\ y >= expected_module_count - 10)
    THEN TRUE
    ELSE IF x = 6 \/ y = 6
    THEN TRUE
    ELSE IF x < 20 /\ y >= 10 /\ y < 18
    THEN TRUE
    ELSE FALSE

SampleTable ==
    [m \in ModuleCounts |->
        Cardinality({c \in (0..(m - 1)) \X (0..(m - 1)) :
                        ~VisualDecoder_is_reserved_area(m, c[1], c[2])})]

\* How many modules the row-major loop of _extract_modules samples.
SampleCount(expected_module_count) == SampleTable[expected_module_count]

\* _cluster_points: point i, if not used yet, opens a cluster and takes every
\* unused point nearer than min_distance to it; the cluster is reported as
\* the truncated mean of its points.
SumOver(points, idx, axis) ==
    LET RECURSIVE S(_)
        S(k) == IF k = 0 THEN 0
                ELSE S(k - 1) + (IF k \in idx THEN points[k][axis] ELSE 0)
    IN  S(Len(points))

Near(p, q, min_distance) ==
    (p[1] - q[1]) * (p[1] - q[1]) + (p[2] - q[2]) * (p[2] - q[2])
        < min_distance * min_distance

RECURSIVE ClusterFrom(_, _, _, _)
ClusterFrom(points, min_distance, i, used) ==
    IF i > Len(points) THEN << >>
    ELSE IF i \in used THEN ClusterFrom(points, min_distance, i + 1, used)
    ELSE LET cluster == {i} \cup {j \in 1..Len(points) :
                            j \notin used /\ j # i
                            /\ Near(points[i], points[j], min_distance)}
             center == << SumOver(points, cluster, 1) \div Cardinality(cluster),
                          SumOver(points, cluster, 2) \div Cardinality(cluster) >>
         IN  << center >> \o ClusterFrom(points, min_distance, i + 1, used \cup cluster)

VisualDecoder_cluster_points(points, min_distance) ==
    IF Len(points) = 0 THEN << >> ELSE ClusterFrom(points, min_distance, 1, {})

\* The `cluster` list of each iteration of the outer loop, as the set of the
\* indices (from 1) of its points: the seed and the unused points nearer
\* than min_distance to the seed.
RECURSIVE ClusterListsFrom(_, _, _, _)
ClusterListsFrom(points, min_distance, i, used) ==
    IF i > Len(points) THEN << >>
    ELSE IF i \in used THEN ClusterListsFrom(points, min_distance, i + 1, used)
    ELSE LET cluster == {i} \cup {j \in 1..Len(points) :
                            j \notin used /\ j # i
                            /\ Near(points[i], points[j], min_distance)}
         IN  << cluster >> \o ClusterListsFrom(points, min_distance, i + 1, used \cup cluster)

VisualDecoder_cluster_lists(points, min_distance) ==
    IF Len(points) = 0 THEN << >> ELSE ClusterListsFrom(points, min_distance, 1, {})

\* _detect_finder_patterns, from the locations template matching reported.
VisualDecoder_detect_finder_patterns(all_locations) ==
    IF Len(all_locations) < 3 THEN << >>
    ELSE LET clustered == VisualDecoder_cluster_points(all_locations, 50)
         IN  SubSeq(clustered, 1, Min(4, Len(clustered)))

\* _perspective_transform returns None unless it is given 4 corners and
\* OpenCV computes and applies the homography (cv_ok).
\* A variant of the transform that goes ahead with 3 corners or more.
VisualDecoder_perspective_transform_ok_from_3(corners, cv_ok) ==
    IF Len(corners) < 3 THEN FALSE ELSE cv_ok

VisualDecoder_perspective_transform_ok(corners, cv_ok) ==
    IF Len(corners) # 4 THEN FALSE ELSE cv_ok

Palette(ncolors) ==
    CASE ncolors = 2 -> << <<0, 0, 0>>, <<255, 255, 255>> >>
      [] ncolors = 4 -> << <<0, 0, 0>>, <<255, 255, 255>>, <<255, 0, 0>>, <<0, 0, 255>> >>
      [] ncolors = 8 -> << <<0, 0, 0>>, <<255, 255, 255>>, <<255, 0, 0>>, <<0, 255, 0>>,
                           <<0, 0, 255>>, <<255, 255, 0>>, <<255, 0, 255>>, <<0, 255, 255>> >>

SqDist(a, b) ==
    (a[1] - b[1]) * (a[1] - b[1]) + (a[2] - b[2]) * (a[2] - b[2])
        + (a[3] - b[3]) * (a[3] - b[3])

\* np.argmin: the first index of a smallest distance (0-based).
ArgMin(color, pal) ==
    (CHOOSE i \in 1..Len(pal) :
        /\ \A j \in 1..Len(pal) : SqDist(pal[i], color) <= SqDist(pal[j], color)
        /\ \A j \in 1..(i - 1) : SqDist(pal[j], color) > SqDist(pal[i], color)) - 1

VisualDecoder_color_to_value(color, color_mode) ==
    IF color_mode = 2
    THEN (IF color[1] + color[2] + color[3] > 3 * 128 THEN 1 ELSE 0)
    ELSE IF color_mode = 4 THEN ArgMin(color, Palette(4))
    ELSE IF color_mode = 8 THEN ArgMin(color, Palette(8))
    ELSE 0

Thresholds(color_mode) ==
    CASE color_mode = 2 -> << 128 >>
      [] color_mode = 4 -> << 64, 128, 192 >>
      [] color_mode = 8 -> << 32, 64, 96, 128, 160, 192, 224 >>

VisualDecoder_intensity_to_value(intensity, color_mode) ==
    IF color_mode \notin {2, 4, 8} THEN 0
    ELSE LET below == {i \in 1..Len(Thresholds(color_mode)) :
                          intensity < Thresholds(color_mode)[i]}
         IN  IF below = {} THEN color_mode - 1
             ELSE (CHOOSE i \in below : \A j \in below : i <= j) - 1

\* _extract_modules on a rectified image given by the mean colour (or, for a
\* grayscale image, the mean intensity) of each sampled module.
VisualDecoder_extract_modules(image, color_mode) ==
    [i \in 1..Len(image.samples) |->
        IF image.gray
        THEN VisualDecoder_intensity_to_value(image.samples[i], color_mode)
        ELSE VisualDecoder_color_to_value(image.samples[i], color_mode)]

\* Bit k (0-based) of the string of the modules' bpm-digit binary forms.
ModuleBitAt(modules, bpm, k) ==
    (modules[(k \div bpm) + 1] \div Pow2(bpm - 1 - (k % bpm))) % 2

RECURSIVE ModuleBitsValue(_, _, _, _)
ModuleBitsValue(modules, bpm, first, n) ==
    IF n = 0 THEN 0
    ELSE 2 * ModuleBitsValue(modules, bpm, first, n - 1)
         + ModuleBitAt(modules, bpm, first + n - 1)

\* Only the complete groups of 8 bits become bytes.
VisualDecoder_modules_to_data(modules, bpm) ==
    [j \in 1..((Len(modules) * bpm) \div 8) |->
        ModuleBitsValue(modules, bpm, 8 * (j - 1), 8)]

\* RSCodec.decode: the input is cut into blocks of 255 bytes; a block's last
\* nsym bytes are its parity (a block shorter than that is all parity).
RSBlockCount(encoded) == (Len(encoded) + 254) \div 255

RSBlock(encoded, b) == SubSeq(encoded, 255 * (b - 1) + 1, Min(255 * b, Len(encoded)))

RSBlockMessage(block, nsym) ==
    IF Len(block) > nsym THEN SubSeq(block, 1, Len(block) - nsym) ELSE << >>

RSBlockConsistent(block, nsym) ==
    LET msg == RSBlockMessage(block, nsym)
        padded == Zeros(IF Len(block) < nsym THEN nsym - Len(block) ELSE 0) \o block
        parity == SubSeq(padded, Len(padded) - nsym + 1, Len(padded))
    IN  parity = RSParity(msg, nsym)

RSDecodeRaises(encoded, nsym) ==
    \E b \in 1..RSBlockCount(encoded) : ~RSBlockConsistent(RSBlock(encoded, b), nsym)

RECURSIVE RSDecodeFrom(_, _, _)
RSDecodeFrom(encoded, nsym, b) ==
    IF b > RSBlockCount(encoded) THEN << >>
    ELSE RSBlockMessage(RSBlock(encoded, b), nsym) \o RSDecodeFrom(encoded, nsym, b + 1)

RSDecode(encoded, nsym) == RSDecodeFrom(encoded, nsym, 1)

BigEndian(bytes) ==
    LET RECURSIVE V(_)
        V(k) == IF k = 0 THEN 0 ELSE 256 * V(k - 1) + bytes[k]
    IN  V(Len(bytes))

\* {2: 1, 4: 2, 8: 3}[color_mode]
ColorModeBits(color_mode) ==
    CASE color_mode = 2 -> 1 [] color_mode = 4 -> 2 [] color_mode = 8 -> 3

\* decode_frame from the point where frames_attempted has been incremented:
\* how the call ends ("None", "DecodedFrame", "raise") and what it returns.
\*   image.valid = FALSE: OpenCV rejects the image in _enhance_image;
\*   all_locations: what template matching reported;
\*   cv_ok: whether OpenCV computed and applied the homography.
VisualDecoder_decode_frame(d, image, all_locations, cv_ok, color_mode) ==
    LET corners == VisualDecoder_detect_finder_patterns(all_locations)
        none == [kind |-> "None", frame_id |-> 0, total_frames |-> 0,
                 data |-> << >>, rate |-> <<0, 1>>]
    IN  IF ~image.valid THEN [none EXCEPT !.kind = "raise"]
        ELSE IF Len(corners) < 3 THEN none
        ELSE IF ~VisualDecoder_perspective_transform_ok(corners, cv_ok) THEN none
        ELSE IF color_mode \notin {2, 4, 8} THEN [none EXCEPT !.kind = "raise"]
        ELSE LET modules == VisualDecoder_extract_modules(image, color_mode)
                 encoded_data == VisualDecoder_modules_to_data(modules,
                                     ColorModeBits(color_mode))
             IN  IF RSDecodeRaises(encoded_data, d.nsym) THEN none
                 ELSE LET decoded_data == RSDecode(encoded_data, d.nsym)
                      IN  IF Len(decoded_data) < 8 THEN none
                          ELSE LET data_length == BigEndian(SubSeq(decoded_data, 6, 7))
                               IN  [kind |-> "DecodedFrame",
                                    frame_id |-> BigEndian(SubSeq(decoded_data, 1, 3)),
                                    total_frames |-> BigEndian(SubSeq(decoded_data, 4, 5)),
                                    data |-> SubSeq(decoded_data, 9,
                                                Min(8 + data_length, Len(decoded_data))),
                                    rate |-> <<0, 1>>]

\* The bytes the decoder parses its fields from, when the call gets that far.
DecodedBytes(d, image, color_mode) ==
    IF ~image.valid \/ color_mode \notin {2, 4, 8} THEN << >>
    ELSE LET encoded_data == VisualDecoder_modules_to_data(
                                 VisualDecoder_extract_modules(image, color_mode),
                                 ColorModeBits(color_mode))
         IN  IF RSDecodeRaises(encoded_data, d.nsym) THEN << >>
             ELSE RSDecode(encoded_data, d.nsym)

\* get_success_rate, as the fraction <<numerator, denominator>>; 0.0 is <<0, 1>>.
VisualDecoder_get_success_rate(d) ==
    IF d.frames_attempted = 0 THEN <<0, 1>>
    ELSE <<d.frames_successful, d.frames_attempted>>

(***************************************************************************)
(* AudioEncoder (audio_encoder.py)                                         *)
(*                                                                         *)
(* Durations are carried in units of 1/8 ms, so that packet_duration / 4   *)
(* stays an integer; for every configuration used here int(sample_rate *   *)
(* seconds) equals (sample_rate * units) \div 8000.  A complex             *)
(* constellation point (re + j im) / sqrt(norm) is the record              *)
(* [re, im, norm].                                                         *)
(***************************************************************************)
crc_init == 65535

poly == 4129

preamble_duration == 40

sync_duration == 16

Modulations == {"BPSK", "QPSK", "QAM16"}

ModulationValue(modulation) ==
    CASE modulation = "BPSK" -> 1
      [] modulation = "QPSK" -> 2
      [] modulation = "QAM16" -> 4

Samples(sample_rate, units) == (sample_rate * units) \div 8000

NoAudioEncoder ==
    [live |-> FALSE, sample_rate |-> 0, num_subcarriers |-> 0, modulation |-> "QPSK",
     packet_duration |-> 0, samples_per_packet |-> 0, samples_per_symbol |-> 0]

AudioEncoder_init(sample_rate, num_subcarriers, modulation, packet_duration) ==
    [live |-> TRUE, sample_rate |-> sample_rate, num_subcarriers |-> num_subcarriers,
     modulation |-> modulation, packet_duration |-> packet_duration,
     samples_per_packet |-> Samples(sample_rate, packet_duration),
     samples_per_symbol |-> Samples(sample_rate, packet_duration \div 4)]

\* Bit w (a power of two) of a ^ b, in place.
XorBit(a, b, w) == (((a \div w) + (b \div w)) % 2) * w

\* a ^ b on operands below 2^17.
Xor(a, b) ==
    XorBit(a, b, 1)
      + XorBit(a, b, 2)
      + XorBit(a, b, 4)
      + XorBit(a, b, 8)
      + XorBit(a, b, 16)
      + XorBit(a, b, 32)
      + XorBit(a, b, 64)
      + XorBit(a, b, 128)
      + XorBit(a, b, 256)
      + XorBit(a, b, 512)
      + XorBit(a, b, 1024)
      + XorBit(a, b, 2048)
      + XorBit(a, b, 4096)
      + XorBit(a, b, 8192)
      + XorBit(a, b, 16384)
      + XorBit(a, b, 32768)
      + XorBit(a, b, 65536)

\* One round of the inner loop: shift left, xor poly in when bit 15 was set,
\* keep 16 bits.
AudioEncoder_crc16_round(crc) ==
    (IF (crc \div 32768) % 2 = 1 THEN Xor(crc * 2, poly) ELSE crc * 2) % 65536

\* `for _ in range(8)`: n more rounds.  Each round's value is computed before
\* the next round starts.
RECURSIVE AudioEncoder_crc16_shift(_, _)
AudioEncoder_crc16_shift(crc, n) ==
    IF n = 0 THEN crc
    ELSE CHOOSE r \in {AudioEncoder_crc16_shift(next, n - 1) :
                          next \in {AudioEncoder_crc16_round(crc)}} : TRUE

\* `for byte in data`, from byte i on.
RECURSIVE AudioEncoder_crc16_from(_, _, _)
AudioEncoder_crc16_from(data, i, crc) ==
    IF i > Len(data) THEN crc
    ELSE CHOOSE r \in {AudioEncoder_crc16_from(data, i + 1, next) :
                          next \in {AudioEncoder_crc16_shift(Xor(crc, data[i] * 256), 8)}} :
             TRUE

\* A variant of the CRC whose register starts at 0.
AudioEncoder_calculate_crc16_from_zero(data) == AudioEncoder_crc16_from(data, 1, 0)

AudioEncoder_calculate_crc16(data) == AudioEncoder_crc16_from(data, 1, crc_init)

\* int.to_bytes(nbytes, 'big')
ToBytes(value, nbytes) ==
    [i \in 1..nbytes |->
        (value \div (CASE nbytes - i = 0 -> 1 [] nbytes - i = 1 -> 256
                       [] nbytes - i = 2 -> 65536)) % 256]

AudioEncoder_encode_header_raises(frame_id, packet_seq, payload_type) ==
    ToBytesOverflows(frame_id, 3) \/ ToBytesOverflows(packet_seq, 2)

\* A variant of the header whose CRC field is little-endian.
AudioEncoder_encode_header_crc_little_endian(frame_id, packet_seq, payload_type) ==
    LET head == ToBytes(frame_id, 3) \o ToBytes(packet_seq, 2) \o <<payload_type % 256>>
        crc == AudioEncoder_calculate_crc16(head)
    IN  head \o <<crc % 256, crc \div 256>>

AudioEncoder_encode_header(frame_id, packet_seq, payload_type) ==
    LET head == ToBytes(frame_id, 3) \o ToBytes(packet_seq, 2) \o <<payload_type % 256>>
        crc == AudioEncoder_calculate_crc16(head)
    IN  head \o ToBytes(crc, 2)

\* ''.join(format(b, '08b') for b in bits)
AudioEncoder_bit_string(bits) ==
    [k \in 1..(8 * Len(bits)) |->
        (bits[((k - 1) \div 8) + 1] \div Pow2(7 - ((k - 1) % 8))) % 2]

\* int(bits, 2)
RECURSIVE BinValue(_, _)
BinValue(symbol_bits, n) ==
    IF n = 0 THEN 0 ELSE 2 * BinValue(symbol_bits, n - 1) + symbol_bits[n]

ZeroSymbol == [re |-> 0, im |-> 0, norm |-> 1]

\* A variant of the mapper with the 16-QAM axes exchanged.
AudioEncoder_bits_to_symbol_axes_exchanged(modulation, symbol_bits) ==
    LET value == BinValue(symbol_bits, Len(symbol_bits))
    IN  CASE modulation = "BPSK" ->
               [re |-> IF value = 0 THEN 1 ELSE -1, im |-> 0, norm |-> 1]
          [] modulation = "QPSK" ->
               LET constellation == << <<1, 1>>, <<1, -1>>, <<-1, 1>>, <<-1, -1>> >>
               IN  [re |-> constellation[value + 1][1],
                    im |-> constellation[value + 1][2], norm |-> 2]
          [] modulation = "QAM16" ->
               [re |-> (value % 4) * 2 - 3,
                im |-> ((value \div 4) % 4) * 2 - 3, norm |-> 10]

AudioEncoder_bits_to_symbol(modulation, symbol_bits) ==
    LET value == BinValue(symbol_bits, Len(symbol_bits))
    IN  CASE modulation = "BPSK" ->
               [re |-> IF value = 0 THEN 1 ELSE -1, im |-> 0, norm |-> 1]
          [] modulation = "QPSK" ->
               LET constellation == << <<1, 1>>, <<1, -1>>, <<-1, 1>>, <<-1, -1>> >>
               IN  [re |-> constellation[value + 1][1],
                    im |-> constellation[value + 1][2], norm |-> 2]
          [] modulation = "QAM16" ->
               [re |-> ((value \div 4) % 4) * 2 - 3,
                im |-> (value % 4) * 2 - 3, norm |-> 10]

AudioEncoder_modulate_symbols(a, bits) ==
    LET bit_string == AudioEncoder_bit_string(bits)
        bits_per_symbol == ModulationValue(a.modulation)
    IN  [i \in 1..a.num_subcarriers |->
            IF i * bits_per_symbol <= Len(bit_string)
            THEN AudioEncoder_bits_to_symbol(a.modulation,
                     SubSeq(bit_string, (i - 1) * bits_per_symbol + 1,
                            i * bits_per_symbol))
            ELSE ZeroSymbol]

AudioEncoder_bits_per_symbol_set(a) ==
    (a.num_subcarriers * ModulationValue(a.modulation)) \div 8

\* The payload loop of encode_packet: chunk k of the payload, zero-padded to
\* bits_per_symbol_set bytes.
AudioEncoder_payload_chunk(a, pkt_payload, k) ==
    LET size == AudioEncoder_bits_per_symbol_set(a)
        chunk == SubSeq(pkt_payload, (k - 1) * size + 1, Min(k * size, Len(pkt_payload)))
    IN  chunk \o Zeros(size - Len(chunk))

AudioEncoder_payload_chunk_count(a, pkt_payload) ==
    LET size == AudioEncoder_bits_per_symbol_set(a)
    IN  (Len(pkt_payload) + size - 1) \div size

\* A run of samples of the packet: which part it is, how many samples, and
\* the constellation points the samples are the OFDM modulation of.
Segment(part, len, symbols) == [part |-> part, len |-> len, symbols |-> symbols]

\* np.concatenate([preamble, sync, header_audio1, header_audio2, payload_audio])
AudioEncoder_concatenate(a, pkt_payload, frame_id, packet_seq, payload_type) ==
    LET header == AudioEncoder_encode_header(frame_id, packet_seq, payload_type)
    IN  << Segment("preamble", Samples(a.sample_rate, preamble_duration), << >>),
           Segment("sync", Samples(a.sample_rate, sync_duration), << >>),
           Segment("header", a.samples_per_symbol,
                   AudioEncoder_modulate_symbols(a, SubSeq(header, 1, 4))),
           Segment("header", a.samples_per_symbol,
                   AudioEncoder_modulate_symbols(a, SubSeq(header, 5, 8))) >>
        \o [k \in 1..AudioEncoder_payload_chunk_count(a, pkt_payload) |->
               Segment("payload", a.samples_per_symbol,
                       AudioEncoder_modulate_symbols(a,
                           AudioEncoder_payload_chunk(a, pkt_payload, k)))]

RECURSIVE SegmentsLength(_, _)
SegmentsLength(segments, n) ==
    IF n = 0 THEN 0 ELSE SegmentsLength(segments, n - 1) + segments[n].len

\* A variant of step 6 that pads a short packet and leaves a long one alone.
AudioEncoder_pad_or_truncate_pads_only(packet, target_samples) ==
    LET total == SegmentsLength(packet, Len(packet))
    IN  IF total < target_samples
        THEN packet \o << Segment("zeros", target_samples - total, << >>) >>
        ELSE packet

\* Step 6 of encode_packet: pad with zeros or cut to target_samples.
AudioEncoder_pad_or_truncate(packet, target_samples) ==
    LET total == SegmentsLength(packet, Len(packet))
        kept == Cardinality({k \in 1..Len(packet) :
                                SegmentsLength(packet, k - 1) < target_samples})
    IN  IF total < target_samples
        THEN packet \o << Segment("zeros", target_samples - total, << >>) >>
        ELSE [k \in 1..kept |->
                 [packet[k] EXCEPT
                     !.len = Min(@, target_samples - SegmentsLength(packet, k - 1))]]

\* range(0, len(payload), 0) and the header's to_bytes are what can raise.
AudioEncoder_encode_packet_raises(a, pkt_payload, frame_id, packet_seq, payload_type) ==
    \/ a.num_subcarriers = 0
    \/ AudioEncoder_encode_header_raises(frame_id, packet_seq, payload_type)
    \/ AudioEncoder_bits_per_symbol_set(a) = 0

AudioEncoder_encode_packet(a, pkt_payload, frame_id, packet_seq, payload_type) ==
    AudioEncoder_pad_or_truncate(
        AudioEncoder_concatenate(a, pkt_payload, frame_id, packet_seq, payload_type),
        a.samples_per_packet)

(***************************************************************************)
(* HVATPReceiver (example_transfer.py)                                     *)
(***************************************************************************)
receiver_module_count == 200

receiver_ecc == 35

HasKey(received_frames, key) ==
    \E i \in 1..Len(received_frames) : received_frames[i].key = key

\* self.received_frames[result.frame_id] = result.data: a key already in
\* the dict keeps its place and takes the new value.
HVATPReceiver_store(received_frames, frame_id, data) ==
    IF HasKey(received_frames, frame_id)
    THEN [i \in 1..Len(received_frames) |->
             IF received_frames[i].key = frame_id
             THEN [key |-> frame_id, value |-> data]
             ELSE received_frames[i]]
    ELSE Append(received_frames, [key |-> frame_id, value |-> data])

\* sorted(self.received_frames.keys())
SortedKeys(received_frames) ==
    LET keys == {received_frames[i].key : i \in 1..Len(received_frames)}
    IN  [n \in 1..Cardinality(keys) |->
            CHOOSE k \in keys : Cardinality({j \in keys : j < k}) = n - 1]

ValueOf(received_frames, key) ==
    received_frames[CHOOSE i \in 1..Len(received_frames) :
                        received_frames[i].key = key].value

\* b''.join(chunks[:n])
RECURSIVE Join(_, _)
Join(chunks, n) == IF n = 0 THEN << >> ELSE Join(chunks, n - 1) \o chunks[n]

\* A variant of the reconstruction that joins the dict's values in
\* insertion order.
HVATPReceiver_reconstruct_file_insertion_order(received_frames) ==
    Join([i \in 1..Len(received_frames) |-> received_frames[i].value],
         Len(received_frames))

\* _reconstruct_file: the bytes written to output_file.
HVATPReceiver_reconstruct_file(received_frames) ==
    LET sorted_keys == SortedKeys(received_frames)
        sorted_frames == [i \in 1..Len(sorted_keys) |->
                             ValueOf(received_frames, sorted_keys[i])]
    IN  Join(sorted_frames, Len(sorted_frames))

\* `if result and result.success:` of the receive loop, up to the completion
\* test.
HVATPReceiver_on_result(r, res) ==
    [r EXCEPT !.frames_decoded = @ + 1,
              !.received_frames = HVATPReceiver_store(@, res.frame_id, res.data),
              !.total_frames = IF @ = -1 THEN res.total_frames ELSE @,
              !.arrivals = Append(@, res)]

\* What follows the loop: the file is written when any frame was received.
HVATPReceiver_after_loop(r, why) ==
    [r EXCEPT !.state = why,
              !.saved = r.received_frames # << >>,
              !.file = IF r.received_frames # << >>
                       THEN HVATPReceiver_reconstruct_file(r.received_frames)
                       ELSE << >>]

(***************************************************************************)
(* State                                                                   *)
(***************************************************************************)
NoDecoder == [live |-> FALSE, expected_module_count |-> 0, ecc |-> 0, nsym |-> 0,
              frames_attempted |-> 0, frames_successful |-> 0]

NoResult == [kind |-> "-", frame_id |-> 0, total_frames |-> 0, data |-> << >>,
             rate |-> <<0, 1>>]

NoProbe == [source |-> "-", color_mode |-> 0, detected |-> FALSE, corners |-> 0,
            transformed |-> FALSE, decoded_data |-> << >>]

NoCall == [data |-> << >>, frame_id |-> 0, total_frames |-> 0]

NoScreen == [shown |-> FALSE, mode |-> "BALANCED", module_count |-> 0,
             ecc |-> 0, stream |-> << >>, call |-> NoCall]

NoScan == [m |-> 0, x |-> 0, y |-> 0, enc_idx |-> 0, dec_idx |-> 0]

NoAudioOut ==
    [op |-> "-", ret |-> "-", data |-> << >>, frame_id |-> 0, packet_seq |-> 0,
     payload_type |-> 0, crc |-> 0, header |-> << >>, symbols |-> << >>,
     packet |-> << >>, raw_len |-> 0, raw |-> << >>]

\* received_frames is the dict as the list of its items in insertion order;
\* total_frames = -1 is None.  arrivals is the history of the DecodedFrames
\* the loop was handed; file is what _reconstruct_file wrote.
NoReceiver ==
    [live |-> FALSE, state |-> "-", received_frames |-> << >>, total_frames |-> -1,
     frames_decoded |-> 0, reads |-> 0, arrivals |-> << >>, saved |-> FALSE,
     file |-> << >>]

\* A direct call of one of the codec's helper methods: op is the method,
\* args its arguments, ret how it ended and out what it returned; origin is
\* history, the byte string a module sequence was made from.
NoHelper == [op |-> "-", ret |-> "-", args |-> << >>, out |-> << >>, origin |-> << >>]

Init ==
    /\ enc = NoEncoder
    /\ dec = NoDecoder
    /\ pc = "idle"
    /\ ret = "-"
    /\ payload = << >>
    /\ calls = << >>
    /\ frames = << >>
    /\ screen = NoScreen
    /\ result = NoResult
    /\ probe = NoProbe
    /\ hist = [started |-> 0, returned |-> 0]
    /\ scan = NoScan
    /\ aenc = NoAudioEncoder
    /\ aout = NoAudioOut
    /\ rx = NoReceiver
    /\ helper = NoHelper

(***************************************************************************)
(* Encoder actions                                                         *)
(***************************************************************************)
\* VisualEncoder(mode, module_count, error_correction_level)
NewEncoder(mode, module_count, ecc) ==
    /\ pc = "idle"
    /\ ~enc.live
    /\ LET nsym == VisualEncoder_parity_symbols(mode, module_count, ecc)
       IN  \/ /\ RSCodecMayConstruct(nsym)
              /\ enc' = VisualEncoder_init(mode, module_count, ecc)
              /\ ret' = "ok"
           \/ /\ RSCodecMayRaise(nsym)
              /\ enc' = NoEncoder
              /\ ret' = "raise"
    /\ pc' = "VisualEncoder"
    /\ UNCHANGED <<dec, payload, calls, frames, screen, result, probe, hist, scan,
                 aenc, aout, rx, helper>>

\* encoder.encode_frame(data, frame_id, total_frames), called directly
EncodeFrame(data, frame_id, total_frames) ==
    /\ pc = "idle"
    /\ enc.live
    /\ calls' = << [data |-> data, frame_id |-> frame_id,
                    total_frames |-> total_frames] >>
    /\ IF VisualEncoder_encode_frame_raises(enc, data, frame_id, total_frames)
       THEN ret' = "raise" /\ frames' = << >>
       ELSE /\ ret' = "ok"
            /\ frames' = << VisualEncoder_encode_frame(enc, data, frame_id,
                                                       total_frames) >>
    /\ pc' = "encode_frame"
    /\ payload' = << >>
    /\ UNCHANGED <<enc, dec, screen, result, probe, hist, scan,
                 aenc, aout, rx, helper>>

\* FrameSequenceEncoder(encoder).encode_data(data)
EncodeData(data) ==
    /\ pc = "idle"
    /\ enc.live
    /\ payload' = data
    /\ IF data_symbols(enc) = 0
       THEN \* ZeroDivisionError
            ret' = "raise" /\ calls' = << >> /\ frames' = << >>
       ELSE LET n == FrameSequenceEncoder_total_frames(enc, data)
                stop == FirstRaising(enc, data)
            IN  IF stop < n
                THEN /\ ret' = "raise"
                     /\ calls' = [k \in 1..(stop + 1) |->
                                    FrameSequenceEncoder_call(enc, data, k - 1)]
                     /\ frames' = << >>
                ELSE /\ ret' = "ok"
                     /\ calls' = [k \in 1..n |->
                                    FrameSequenceEncoder_call(enc, data, k - 1)]
                     /\ frames' = [k \in 1..n |->
                            LET c == FrameSequenceEncoder_call(enc, data, k - 1)
                            IN  VisualEncoder_encode_frame(enc, c.data, c.frame_id,
                                                           c.total_frames)]
    /\ pc' = "encode_data"
    /\ UNCHANGED <<enc, dec, screen, result, probe, hist, scan,
                 aenc, aout, rx, helper>>

\* The sender shows frame k of the sequence it has just encoded
\* (HVATPSender.send_file); the rasters themselves are dropped.
Display(k) ==
    /\ pc = "encode_data"
    /\ ret = "ok"
    /\ k \in 1..Len(frames)
    /\ screen' = [shown |-> TRUE, mode |-> frames[k].mode,
                  module_count |-> frames[k].module_count, ecc |-> enc.ecc,
                  stream |-> frames[k].stream, call |-> calls[k]]
    /\ pc' = "idle"
    /\ ret' = "-"
    /\ payload' = << >>
    /\ calls' = << >>
    /\ frames' = << >>
    /\ UNCHANGED <<enc, dec, result, probe, hist, scan,
                 aenc, aout, rx, helper>>

\* The caller takes the outcome; the instances (and the screen) stay.
Return ==
    /\ pc # "idle"
    /\ pc' = "idle"
    /\ ret' = "-"
    /\ payload' = << >>
    /\ calls' = << >>
    /\ frames' = << >>
    /\ result' = NoResult
    /\ probe' = NoProbe
    /\ UNCHANGED <<enc, dec, screen, hist, scan,
                 aenc, aout, rx, helper>>

(***************************************************************************)
(* Decoder actions                                                         *)
(***************************************************************************)
\* VisualDecoder(expected_module_count, error_correction_level)
NewDecoder(expected_module_count, ecc) ==
    /\ pc = "idle"
    /\ ~dec.live
    /\ LET nsym == VisualDecoder_parity_symbols(expected_module_count, ecc)
       IN  \/ /\ RSCodecMayConstruct(nsym)
              /\ dec' = VisualDecoder_init(expected_module_count, ecc)
              /\ ret' = "ok"
           \/ /\ RSCodecMayRaise(nsym)
              /\ dec' = NoDecoder
              /\ ret' = "raise"
    /\ pc' = "VisualDecoder"
    /\ UNCHANGED <<enc, payload, calls, frames, screen, result, probe, hist, scan,
                 aenc, aout, rx, helper>>

\* The two counters after a decode_frame call that ended in `kind`.
\* A variant of the bookkeeping that counts every call that did not raise as
\* a success.
VisualDecoder_count_every_return(d, kind) ==
    [d EXCEPT !.frames_attempted = @ + 1,
              !.frames_successful = IF kind # "raise" THEN @ + 1 ELSE @]

VisualDecoder_count(d, kind) ==
    [d EXCEPT !.frames_attempted = @ + 1,
              !.frames_successful = IF kind = "DecodedFrame" THEN @ + 1 ELSE @]

\* decoder.decode_frame(camera_image, color_mode)
DecodeFrame(source, image, all_locations, cv_ok, color_mode) ==
    /\ pc = "idle"
    /\ dec.live
    /\ hist.started < MaxDecodes
    /\ LET out == VisualDecoder_decode_frame(dec, image, all_locations, cv_ok,
                                             color_mode)
           corners == VisualDecoder_detect_finder_patterns(all_locations)
       IN  /\ result' = out
           /\ ret' = out.kind
           /\ dec' = VisualDecoder_count(dec, out.kind)
           /\ hist' = [started |-> hist.started + 1,
                       returned |-> hist.returned
                                    + (IF out.kind = "DecodedFrame" THEN 1 ELSE 0)]
           /\ probe' = [source |-> source, color_mode |-> color_mode,
                        detected |-> image.valid,
                        corners |-> IF image.valid THEN Len(corners) ELSE 0,
                        transformed |-> image.valid /\ Len(corners) >= 3
                            /\ VisualDecoder_perspective_transform_ok(corners, cv_ok),
                        decoded_data |-> IF out.kind = "DecodedFrame"
                                         THEN DecodedBytes(dec, image, color_mode)
                                         ELSE << >>]
    /\ pc' = "decode_frame"
    /\ UNCHANGED <<enc, payload, calls, frames, screen, scan,
                 aenc, aout, rx, helper>>

\* decoder.get_success_rate()
GetSuccessRate ==
    /\ pc = "idle"
    /\ dec.live
    /\ result' = [NoResult EXCEPT !.kind = "rate",
                                  !.rate = VisualDecoder_get_success_rate(dec)]
    /\ ret' = "ok"
    /\ pc' = "get_success_rate"
    /\ probe' = NoProbe
    /\ UNCHANGED <<enc, dec, payload, calls, frames, screen, hist, scan,
                 aenc, aout, rx, helper>>

(***************************************************************************)
(* Inputs                                                                  *)
(***************************************************************************)
\* Chunk and payload lengths worth trying with encoder e: the short ones and
\* those around one and two frames' capacity.
Lengths(e) ==
    (0..MaxPayloadLen)
    \cup {n \in {data_symbols(e) - 1, data_symbols(e), data_symbols(e) + 1,
                 2 * data_symbols(e), 2 * data_symbols(e) + 1} : n >= 0}

\* (frame_id, total_frames) of a direct encode_frame call.
FrameIds == {<<0, 1>>, <<1, 2>>}

\* What template matching may report: nothing, two points, three points of
\* one cluster, three points of two clusters, and 3, 4 and 5 clusters.
LocationLists ==
    { << >>,
      << <<100, 100>>, <<900, 100>> >>,
      << <<100, 100>>, <<110, 105>>, <<100, 100>> >>,
      << <<100, 100>>, <<110, 105>>, <<900, 100>> >>,
      << <<100, 100>>, <<900, 100>>, <<900, 900>> >>,
      << <<900, 100>>, <<100, 100>>, <<900, 900>>, <<100, 900>> >>,
      << <<100, 100>>, <<110, 105>>, <<900, 100>>, <<900, 900>>, <<100, 900>> >>,
      << <<100, 100>>, <<900, 100>>, <<900, 900>>, <<100, 900>>, <<500, 500>> >> }

FourCorners == << <<900, 100>>, <<100, 100>>, <<900, 900>>, <<100, 900>> >>

ColorModes == {2, 3, 4, 8}

\* The displayed raster, detected, rectified and sampled exactly: the mean
\* colour of a module is the palette colour the encoder wrote there.
ScreenImage ==
    [valid |-> TRUE, gray |-> FALSE,
     samples |-> [i \in 1..Len(screen.stream) |->
                    Palette(colors(screen.mode))[screen.stream[i] + 1]]]

InvalidImage == [valid |-> FALSE, gray |-> FALSE, samples |-> << >>]

GrayImage(d, level) ==
    [valid |-> TRUE, gray |-> TRUE,
     samples |-> [i \in 1..SampleCount(d.expected_module_count) |-> level]]

\* First 9 bytes of the message of a crafted image: all zero; a header whose
\* checksum bytes verify; one whose checksum does not; one whose data_length
\* (256) is longer than anything the image carries.
CraftedHeads ==
    { << 0, 0, 0, 0, 0, 0, 0, 0, 0 >>,
      << 0, 0, 1, 0, 2, 0, 1, 0, 4 >>,
      << 0, 0, 1, 0, 2, 0, 1, 0, 9 >>,
      << 0, 0, 1, 0, 2, 1, 0, 0, 4 >> }

\* An image whose modules, read with color_mode cm, are an RS stream for
\* decoder d whose message starts with head.
CraftedImage(d, cm, head) ==
    LET bpm == ColorModeBits(cm)
        npos == SampleCount(d.expected_module_count)
        nb == (npos * bpm) \div 8
        blocks == (nb + 254) \div 255
        msglen == IF nb > blocks * d.nsym THEN nb - blocks * d.nsym ELSE 0
        msg == [i \in 1..msglen |-> IF i <= Len(head) THEN head[i] ELSE PatByte(1, i)]
        stream == IF d.nsym < 255 THEN RSEncode(msg, d.nsym) ELSE << >>
        bytes == [i \in 1..nb |-> IF i <= Len(stream) THEN stream[i] ELSE 0]
        modules == VisualEncoder_data_to_modules(bytes, bpm)
    IN  [valid |-> TRUE, gray |-> FALSE,
         samples |-> [i \in 1..npos |->
                        Palette(cm)[(IF i <= Len(modules) THEN modules[i] ELSE 0) + 1]]]

(***************************************************************************)
(* Specifications                                                          *)
(***************************************************************************)
\* The encoder alone.
NextEnc ==
    \/ \E mode \in Modes, m \in ModuleCounts, ecc \in EccLevels :
          NewEncoder(mode, m, ecc)
    \/ \E len \in Lengths(enc), pat \in 0..MaxPattern, id \in FrameIds :
          EncodeFrame(Bytes(len, pat), id[1], id[2])
    \/ \E len \in Lengths(enc), pat \in 0..MaxPattern : EncodeData(Bytes(len, pat))
    \/ Return

SpecEnc == Init /\ [][NextEnc]_vars

\* The decoder alone, on whatever the camera may deliver.
DecoderModuleCounts == {12, 24}

NextDec ==
    \/ \E m \in DecoderModuleCounts, ecc \in EccLevels : NewDecoder(m, ecc)
    \/ \E locs \in LocationLists, cv_ok \in BOOLEAN :
          DecodeFrame("camera", GrayImage(dec, 0), locs, cv_ok, 4)
    \/ \E cm \in ColorModes, level \in {0, 255} :
          DecodeFrame("camera", GrayImage(dec, level), FourCorners, TRUE, cm)
    \/ \E cm \in ColorModes : DecodeFrame("camera", InvalidImage, FourCorners, TRUE, cm)
    \/ \E cm \in ColorModes, cm0 \in {2, 4, 8}, head \in CraftedHeads :
          DecodeFrame("camera", CraftedImage(dec, cm0, head), FourCorners, TRUE, cm)
    \/ GetSuccessRate
    \/ Return

SpecDec == Init /\ [][NextDec]_vars

\* Sender and receiver, configured alike: a payload is encoded, one of its
\* frames is displayed and the camera image of it is decoded.
PipelineConfigs == (Modes \X {24}) \cup {<<"ROBUST", 50>>}

Next ==
    \/ \E c \in PipelineConfigs : NewEncoder(c[1], c[2], 25)
    \/ enc.live /\ NewDecoder(enc.module_count, enc.ecc)
    \/ \E len \in Lengths(enc), pat \in 0..MaxPattern :
          dec.live /\ ~screen.shown /\ EncodeData(Bytes(len, pat))
    \/ \E k \in 1..Len(frames) : Display(k)
    \/ \E cm \in ColorModes, cv_ok \in BOOLEAN :
          /\ screen.shown
          /\ hist.started < MaxScreenDecodes
          /\ DecodeFrame("screen", ScreenImage, FourCorners, cv_ok, cm)
    \/ Return

Spec == Init /\ [][Next]_vars

(***************************************************************************)
(* The traversal loops                                                     *)
(***************************************************************************)
\* `for y in range(module_count): for x in range(module_count):` of
\* encode_frame and of _extract_modules, run side by side over one grid:
\* enc_idx counts the positions the encoder does not skip, dec_idx those the
\* decoder samples.
ScanStart(m) ==
    /\ scan.m = 0
    /\ scan' = [m |-> m, x |-> 0, y |-> 0, enc_idx |-> 0, dec_idx |-> 0]
    /\ UNCHANGED <<enc, dec, pc, ret, payload, calls, frames, screen, result,
                   probe, hist, aenc, aout, rx, helper>>

ScanStep ==
    /\ scan.m > 0
    /\ scan.y < scan.m
    /\ scan' = [scan EXCEPT
           !.enc_idx = IF VisualEncoder_is_reserved_area(scan.m, scan.x, scan.y)
                       THEN @ ELSE @ + 1,
           !.dec_idx = IF VisualDecoder_is_reserved_area(scan.m, scan.x, scan.y)
                       THEN @ ELSE @ + 1,
           !.x = IF scan.x + 1 < scan.m THEN scan.x + 1 ELSE 0,
           !.y = IF scan.x + 1 < scan.m THEN scan.y ELSE scan.y + 1]
    /\ UNCHANGED <<enc, dec, pc, ret, payload, calls, frames, screen, result,
                   probe, hist, aenc, aout, rx, helper>>

ScanModuleCounts == {21, 24, 50}

NextScan ==
    \/ \E m \in ScanModuleCounts : ScanStart(m)
    \/ ScanStep

SpecScan == Init /\ [][NextScan]_vars

(***************************************************************************)
(* AudioEncoder actions                                                    *)
(***************************************************************************)
VisualVars == <<enc, dec, pc, ret, payload, calls, frames, screen, result, probe,
                hist, scan, helper>>

\* AudioEncoder(sample_rate, num_subcarriers, modulation=..., packet_duration=...)
NewAudioEncoder(sample_rate, num_subcarriers, modulation, packet_duration) ==
    /\ aenc' = AudioEncoder_init(sample_rate, num_subcarriers, modulation,
                                 packet_duration)
    /\ aout' = NoAudioOut
    /\ UNCHANGED <<VisualVars, rx>>

\* encoder._calculate_crc16(data)
CalculateCrc16(data) ==
    /\ aenc.live
    /\ aout' = [NoAudioOut EXCEPT !.op = "_calculate_crc16", !.ret = "ok",
                                  !.data = data,
                                  !.crc = AudioEncoder_calculate_crc16(data)]
    /\ UNCHANGED <<VisualVars, aenc, rx>>

\* encoder._encode_header(frame_id, packet_seq, payload_type)
EncodeHeader(frame_id, packet_seq, payload_type) ==
    /\ aenc.live
    /\ aout' = [NoAudioOut EXCEPT
                   !.op = "_encode_header",
                   !.frame_id = frame_id,
                   !.packet_seq = packet_seq,
                   !.payload_type = payload_type,
                   !.ret = IF AudioEncoder_encode_header_raises(frame_id, packet_seq,
                                                                payload_type)
                           THEN "raise" ELSE "ok",
                   !.header = IF AudioEncoder_encode_header_raises(frame_id, packet_seq,
                                                                   payload_type)
                              THEN << >>
                              ELSE AudioEncoder_encode_header(frame_id, packet_seq,
                                                              payload_type)]
    /\ UNCHANGED <<VisualVars, aenc, rx>>

\* encoder._modulate_symbols(bits)
ModulateSymbols(bits) ==
    /\ aenc.live
    /\ aout' = [NoAudioOut EXCEPT !.op = "_modulate_symbols", !.ret = "ok",
                                  !.data = bits,
                                  !.symbols = AudioEncoder_modulate_symbols(aenc, bits)]
    /\ UNCHANGED <<VisualVars, aenc, rx>>

\* What encode_packet(payload, frame_id, packet_seq, payload_type) leaves:
\* raw is the packet of step 5, before it is padded or cut.
AudioEncoder_encode_packet_call(a, pkt_payload, frame_id, packet_seq, payload_type) ==
    LET raises == AudioEncoder_encode_packet_raises(a, pkt_payload, frame_id,
                                                    packet_seq, payload_type)
        raw == AudioEncoder_concatenate(a, pkt_payload, frame_id, packet_seq,
                                        payload_type)
    IN  [NoAudioOut EXCEPT
            !.op = "encode_packet",
            !.data = pkt_payload,
            !.frame_id = frame_id,
            !.packet_seq = packet_seq,
            !.payload_type = payload_type,
            !.ret = IF raises THEN "raise" ELSE "ok",
            !.raw = IF raises THEN << >> ELSE raw,
            !.raw_len = IF raises THEN 0 ELSE SegmentsLength(raw, Len(raw)),
            !.packet = IF raises THEN << >>
                       ELSE AudioEncoder_encode_packet(a, pkt_payload, frame_id,
                                                       packet_seq, payload_type)]

\* encoder.encode_packet(payload, frame_id, packet_seq, payload_type)
EncodePacket(pkt_payload, frame_id, packet_seq, payload_type) ==
    /\ aenc.live
    /\ aout' = AudioEncoder_encode_packet_call(aenc, pkt_payload, frame_id,
                                               packet_seq, payload_type)
    /\ UNCHANGED <<VisualVars, aenc, rx>>

SampleRates == {48000, 44100}

SubcarrierCounts == {48, 8}

PacketDurations == {400, 80}

Ascii123456789 == <<49, 50, 51, 52, 53, 54, 55, 56, 57>>

CrcBytes == {0, 1, 128, 255}

CrcInputs ==
    {<< >>, Ascii123456789, <<0, 0, 42, 0, 0, 1>>}
      \cup {<<b>> : b \in CrcBytes}
      \cup {<<b, c>> : b \in CrcBytes, c \in CrcBytes}

\* <<frame_id, packet_seq, payload_type>>
HeaderArgs ==
    {<<0, 0, 0>>, <<42, 0, 1>>, <<65794, 258, 6>>, <<16777215, 65535, 255>>,
     <<1, 65535, 257>>, <<255, 1, 2>>, <<256, 256, 256>>, <<16777216, 0, 1>>,
     <<0, 65536, 1>>}

ModulateInputs ==
    {<< >>, <<27>>, <<255>>, <<1, 35, 69, 103, 137, 171, 205, 239>>, Bytes(25, 1)}

PacketLengths(a) ==
    {0, 1, AudioEncoder_bits_per_symbol_set(a), AudioEncoder_bits_per_symbol_set(a) + 1,
     2 * AudioEncoder_bits_per_symbol_set(a) + 1}

NextAudio ==
    \/ \E sr \in SampleRates, n \in SubcarrierCounts, m \in Modulations,
          d \in PacketDurations : NewAudioEncoder(sr, n, m, d)
    \/ \E data \in CrcInputs : CalculateCrc16(data)
    \/ \E h \in HeaderArgs : EncodeHeader(h[1], h[2], h[3])
    \/ \E bits \in ModulateInputs : ModulateSymbols(bits)
    \/ \E len \in PacketLengths(aenc), t \in {1, 6} :
          EncodePacket(Bytes(len, 1), 42, 0, t)

SpecAudio == Init /\ [][NextAudio]_vars

(***************************************************************************)
(* HVATPReceiver actions                                                   *)
(***************************************************************************)
\* HVATPReceiver(): builds VisualDecoder(200, 0.35) and the empty buffer.
NewReceiver ==
    /\ ~rx.live
    /\ rx.state = "-"
    /\ LET nsym == VisualDecoder_parity_symbols(receiver_module_count, receiver_ecc)
       IN  \/ /\ RSCodecMayConstruct(nsym)
              /\ dec' = VisualDecoder_init(receiver_module_count, receiver_ecc)
              /\ rx' = [NoReceiver EXCEPT !.live = TRUE, !.state = "idle"]
           \/ /\ RSCodecMayRaise(nsym)
              /\ dec' = NoDecoder
              /\ rx' = [NoReceiver EXCEPT !.state = "raise"]
    /\ UNCHANGED <<enc, pc, ret, payload, calls, frames, screen, result, probe, hist,
                   scan, aenc, aout, helper>>

\* receive_from_camera, up to the loop: returns at once when the camera does
\* not open.
StartReceive(opened) ==
    /\ rx.live
    /\ rx.state = "idle"
    /\ rx' = [rx EXCEPT !.state = IF opened THEN "receiving" ELSE "no_camera"]
    /\ UNCHANGED <<VisualVars, aenc, aout>>

\* One iteration of the loop whose cap.read() succeeds: decode_frame gives
\* res (a DecodedFrame or None), then the key is polled.
ReceiveFrame(res, quit) ==
    /\ rx.state = "receiving"
    /\ rx.reads < MaxReads
    /\ dec' = VisualDecoder_count(dec, res.kind)
    /\ hist' = [started |-> hist.started + 1,
                returned |-> hist.returned + (IF res.kind = "DecodedFrame" THEN 1 ELSE 0)]
    /\ LET read == [rx EXCEPT !.reads = @ + 1]
           handled == IF res.kind = "DecodedFrame"
                      THEN HVATPReceiver_on_result(read, res)
                      ELSE read
       IN  rx' = IF /\ res.kind = "DecodedFrame"
                    /\ Len(handled.received_frames) = handled.total_frames
                 THEN HVATPReceiver_after_loop(handled, "complete")
                 ELSE IF quit
                 THEN HVATPReceiver_after_loop(handled, "cancelled")
                 ELSE handled
    /\ UNCHANGED <<enc, pc, ret, payload, calls, frames, screen, result, probe, scan,
                   aenc, aout, helper>>

\* An iteration whose cap.read() fails.
ReadFailed ==
    /\ rx.state = "receiving"
    /\ rx' = HVATPReceiver_after_loop(rx, "read_failed")
    /\ UNCHANGED <<VisualVars, aenc, aout>>

\* <<frame_id, total_frames>> of the frames on the air: each with
\* frame_id < total_frames.
FrameHeaders == {<<0, 1>>, <<0, 2>>, <<1, 2>>, <<0, 3>>, <<1, 3>>, <<2, 3>>}

ReceivedData == {<<1>>, <<2, 3>>}

DecodeResults ==
    {NoResult}
      \cup {[NoResult EXCEPT !.kind = "DecodedFrame", !.frame_id = h[1],
                             !.total_frames = h[2], !.data = d] :
               h \in FrameHeaders, d \in ReceivedData}

NextRecv ==
    \/ NewReceiver
    \/ \E opened \in BOOLEAN : StartReceive(opened)
    \/ \E res \in DecodeResults, quit \in BOOLEAN : ReceiveFrame(res, quit)
    \/ ReadFailed

SpecRecv == Init /\ [][NextRecv]_vars

(***************************************************************************)
(* Claims                                                                  *)
(***************************************************************************)
\* The last call was decode_frame on the displayed raster with nothing lost
\* on the way: decoder configured like the encoder, colour mode of the
\* encoder's mode, four corners found, the homography applied.
NoiseFree ==
    /\ pc = "decode_frame"
    /\ probe.source = "screen"
    /\ probe.transformed
    /\ probe.color_mode = colors(screen.mode)
    /\ dec.expected_module_count = screen.module_count
    /\ dec.ecc = screen.ecc

\* C1: a noise-free decode of encode_frame(P, frame_id, total_frames) returns
\* a DecodedFrame whose frame_id, total_frames and data are frame_id,
\* total_frames and P.
C1_RoundTrip ==
    NoiseFree =>
        /\ result.kind = "DecodedFrame"
        /\ result.frame_id = screen.call.frame_id
        /\ result.total_frames = screen.call.total_frames
        /\ result.data = screen.call.data

CeilDiv(a, b) == IF a % b = 0 THEN a \div b ELSE (a \div b) + 1

Slice(P, k, size) == SubSeq(P, k * size + 1, Min((k + 1) * size, Len(P)))

RECURSIVE ConcatData(_, _)
ConcatData(cs, n) == IF n = 0 THEN << >> ELSE ConcatData(cs, n - 1) \o cs[n].data

\* The data_length field of a frame's 9 metadata bytes.
MetaDataLength(metadata) == 256 * metadata[6] + metadata[7]

\* C2: encode_data calls encode_frame exactly n = ceil(|P| / data_symbols)
\* times, call k with chunk P[k*data_symbols : (k+1)*data_symbols], frame_id k
\* and total_frames n; the chunks are non-empty, at most data_symbols long and
\* concatenate to P; an empty payload yields zero frames.
C2_Partition ==
    (pc = "encode_data" /\ data_symbols(enc) >= 1) =>
        LET ds == data_symbols(enc)
            n == CeilDiv(Len(payload), ds)
        IN  /\ Len(calls) = n
            /\ \A k \in 1..Len(calls) :
                  /\ calls[k].data = Slice(payload, k - 1, ds)
                  /\ calls[k].frame_id = k - 1
                  /\ calls[k].total_frames = n
                  /\ Len(calls[k].data) \in 1..ds
            /\ ConcatData(calls, Len(calls)) = payload
            /\ (Len(payload) = 0 => (ret = "ok" /\ frames = << >>))

\* The same, of the encode_data calls in which no encode_frame call raises.
C2_PartitionUnlessRaised ==
    (pc = "encode_data" /\ ret = "raise" /\ data_symbols(enc) >= 1) \/ C2_Partition

\* C3: the data_length stamped into a frame's metadata is the length of the
\* chunk passed to encode_frame, for every chunk of at most data_symbols bytes.
C3_DataLength ==
    (pc \in {"encode_frame", "encode_data"} /\ ret = "ok") =>
        \A k \in 1..Len(frames) :
            Len(calls[k].data) <= data_symbols(enc) =>
                MetaDataLength(frames[k].metadata) = Len(calls[k].data)

\* C4 as claimed: encode_frame with a chunk longer than data_symbols ends in
\* an error and produces no frame.
C4_CapacityExceeded ==
    (pc = "encode_frame" /\ Len(calls[1].data) > data_symbols(enc)) =>
        (ret = "raise" /\ frames = << >>)

\* C4 as amended: encode_frame with a chunk longer than data_symbols ends
\* exactly as it does for the chunk's first data_symbols bytes: the same
\* frame, stamped data_length = data_symbols, or the same exception.
C4_Truncates ==
    (pc = "encode_frame" /\ Len(calls[1].data) > data_symbols(enc)) =>
        LET c == calls[1]
            head == SubSeq(c.data, 1, data_symbols(enc))
        IN  /\ (ret = "raise") =
                  VisualEncoder_encode_frame_raises(enc, head, c.frame_id,
                                                    c.total_frames)
            /\ ret = "ok" =>
                  /\ frames = << VisualEncoder_encode_frame(enc, head, c.frame_id,
                                                            c.total_frames) >>
                  /\ MetaDataLength(frames[1].metadata) = data_symbols(enc)

C4_Witness ==
    /\ pc = "encode_frame"
    /\ Len(calls[1].data) > data_symbols(enc)
    /\ data_symbols(enc) > 0
    /\ ret = "ok"
    /\ Len(frames) = 1
    /\ \E i \in 1..Len(frames[1].stream) : frames[1].stream[i] # 0

\* C5: decode_frame ends by returning a DecodedFrame or None, whatever the
\* image and the color_mode.
C5_NeverRaises ==
    pc = "decode_frame" => ret \in {"None", "DecodedFrame"}

\* The 9 metadata bytes as the decoder has them: the first bytes of the
\* RS-decoded data.  Their checksum verifies when bytes 8..9 hold the sum of
\* bytes 1..7 mod 2^16.
ChecksumVerifies(decoded_data) ==
    /\ Len(decoded_data) >= 9
    /\ 256 * decoded_data[8] + decoded_data[9]
         = (decoded_data[1] + decoded_data[2] + decoded_data[3] + decoded_data[4]
            + decoded_data[5] + decoded_data[6] + decoded_data[7]) % 65536

\* C6: a DecodedFrame is only returned from metadata whose checksum verifies
\* and whose data_length does not exceed the payload region.
C6_BadMetadata ==
    (pc = "decode_frame" /\ ret = "DecodedFrame") =>
        /\ ChecksumVerifies(probe.decoded_data)
        /\ 256 * probe.decoded_data[6] + probe.decoded_data[7]
             <= Len(probe.decoded_data) - 8

\* C7: frames_attempted is the number of decode_frame calls started,
\* frames_successful the number that returned a DecodedFrame,
\* 0 <= frames_successful <= frames_attempted, and get_success_rate returns
\* 0.0 before the first call and frames_successful / frames_attempted, a
\* value in [0, 1], after it.
C7_Counters ==
    /\ dec.frames_attempted = hist.started
    /\ dec.frames_successful = hist.returned
    /\ 0 <= dec.frames_successful
    /\ dec.frames_successful <= dec.frames_attempted
    /\ pc = "get_success_rate" =>
          /\ result.rate = IF hist.started = 0 THEN <<0, 1>>
                           ELSE <<hist.returned, hist.started>>
          /\ result.rate[2] > 0
          /\ 0 <= result.rate[1]
          /\ result.rate[1] <= result.rate[2]

C7_Witness ==
    /\ pc = "get_success_rate"
    /\ dec.frames_attempted = 3
    /\ dec.frames_successful = 2
    /\ result.rate = <<2, 3>>

\* C8: decode_frame returns None when fewer than 3 corners are detected and
\* when exactly 3 are; a DecodedFrame comes only from a call in which exactly
\* 4 corners reached the perspective transform.
C8_NeedsFourCorners ==
    pc = "decode_frame" =>
        /\ (probe.detected /\ probe.corners <= 3) => ret = "None"
        /\ ret = "DecodedFrame" => (probe.corners = 4 /\ probe.transformed)

C8_Witness ==
    /\ pc = "decode_frame"
    /\ probe.detected
    /\ probe.corners = 3
    /\ ret = "None"
    /\ dec.frames_successful > 0

C10_PredicatesAgree ==
    /\ scan.enc_idx = scan.dec_idx
    /\ (scan.m > 0 /\ scan.y < scan.m) =>
          VisualEncoder_is_reserved_area(scan.m, scan.x, scan.y)
            = VisualDecoder_is_reserved_area(scan.m, scan.x, scan.y)

C10_Witness ==
    /\ scan.m = 50
    /\ scan.x = 3
    /\ scan.y = 12
    /\ scan.enc_idx > 0
    /\ VisualEncoder_is_reserved_area(scan.m, scan.x, scan.y)
    /\ VisualDecoder_is_reserved_area(scan.m, scan.x, scan.y)

\* The configurations the protocol declares legal.
LegalConfig(e) == e.module_count \in 50..500 /\ e.ecc \in 25..50

\* C11: in every legal configuration the RS-encoded stream of a frame's
\* data_symbols-byte chunk has exactly total_symbols bytes.
C11_SymbolBudget ==
    (pc \in {"encode_frame", "encode_data"} /\ enc.live /\ LegalConfig(enc)) =>
        \A k \in 1..Len(frames) :
            Len(RSEncode(VisualEncoder_fit_data(enc, calls[k].data), enc.nsym))
              = VisualEncoder_calculate_total_symbols(enc.mode, enc.module_count)

\* C12: for module_count > 150, encode_frame completes and returns the
\* raster, and encode_data returns its frames.
C12_CenterFinder ==
    (pc \in {"encode_frame", "encode_data"} /\ enc.live /\ enc.module_count > 150) =>
        /\ ret = "ok"
        /\ Len(frames) = Len(calls)
        /\ \A k \in 1..Len(frames) : frames[k].module_count = enc.module_count

\* C19: in every legal configuration the non-reserved positions are at least
\* as many as the modules made from the RS-encoded bytes and as the capacity
\* formula module_count^2 - 100 assumes, so the traversal ends with
\* module_idx = len(modules).
C19_EveryModulePlaced ==
    (pc \in {"encode_frame", "encode_data"} /\ enc.live /\ LegalConfig(enc)) =>
        \A k \in 1..Len(frames) :
            /\ DataPositionCount(enc.module_count) >= frames[k].n_modules
            /\ frames[k].module_idx = frames[k].n_modules
            /\ enc.module_count * enc.module_count - reserved_modules
                 <= DataPositionCount(enc.module_count)

\* The reserved predicate as the protocol document writes it.
SpecifiedReserved(M, x, y) ==
    \/ (x < 10 /\ y < 10)
    \/ (x >= M - 10 /\ y < 10)
    \/ (x < 10 /\ y >= M - 10)
    \/ x = 6
    \/ y = 6
    \/ (10 <= x /\ x < 20 /\ 10 <= y /\ y < 18)

\* C20: at every position of the grid, the implemented reserved predicates
\* hold exactly where the specified predicate holds.
C20_SpecifiedPredicate ==
    (scan.m > 0 /\ scan.y < scan.m) =>
        /\ VisualEncoder_is_reserved_area(scan.m, scan.x, scan.y)
             = SpecifiedReserved(scan.m, scan.x, scan.y)
        /\ VisualDecoder_is_reserved_area(scan.m, scan.x, scan.y)
             = SpecifiedReserved(scan.m, scan.x, scan.y)

\* CRC-16/CCITT-FALSE by its definition: a 16-bit register starting at
\* 0xFFFF takes the message bits one at a time, most significant bit of each
\* byte first; the register is shifted left and 0x1021 is xored in when the
\* bit shifted out differs from the message bit.
CrcReferenceBit(register, bit) ==
    IF ((register \div 32768) + bit) % 2 = 1
    THEN Xor((register * 2) % 65536, 4129)
    ELSE (register * 2) % 65536

\* The register after the first nbits bits of byte have gone in.
RECURSIVE CrcReferenceByte(_, _, _)
CrcReferenceByte(register, byte, nbits) ==
    IF nbits = 0 THEN register
    ELSE CHOOSE r \in {CrcReferenceBit(before, (byte \div Pow2(8 - nbits)) % 2) :
                          before \in {CrcReferenceByte(register, byte, nbits - 1)}} :
             TRUE

RECURSIVE CrcReferenceUpTo(_, _)
CrcReferenceUpTo(data, nbytes) ==
    IF nbytes = 0 THEN 65535
    ELSE CHOOSE r \in {CrcReferenceByte(before, data[nbytes], 8) :
                          before \in {CrcReferenceUpTo(data, nbytes - 1)}} : TRUE

CrcReference(data) == CrcReferenceUpTo(data, Len(data))

\* C13: _calculate_crc16 equals the bitwise CRC-16/CCITT-FALSE reference on
\* every byte sequence, lies in [0, 0xFFFF], and is 0x29B1 on "123456789".
C13_Crc16 ==
    aout.op = "_calculate_crc16" =>
        /\ aout.crc = CrcReference(aout.data)
        /\ aout.crc \in 0..65535
        /\ aout.data = Ascii123456789 => aout.crc = 10673

C13_Witness ==
    /\ aout.op = "_calculate_crc16"
    /\ aout.data = Ascii123456789
    /\ aout.crc = 10673

\* C14: for frame_id < 2^24 and packet_seq < 2^16, _encode_header returns 8
\* bytes: frame_id big-endian, packet_seq big-endian, payload_type & 0xFF,
\* and the big-endian CRC-16 of the first 6 bytes.
C14_Header ==
    (/\ aout.op = "_encode_header"
     /\ aout.frame_id \in 0..16777215
     /\ aout.packet_seq \in 0..65535) =>
        /\ aout.ret = "ok"
        /\ Len(aout.header) = 8
        /\ \A i \in 1..8 : aout.header[i] \in 0..255
        /\ 65536 * aout.header[1] + 256 * aout.header[2] + aout.header[3]
             = aout.frame_id
        /\ 256 * aout.header[4] + aout.header[5] = aout.packet_seq
        /\ aout.header[6] = aout.payload_type % 256
        /\ 256 * aout.header[7] + aout.header[8]
             = CrcReference(SubSeq(aout.header, 1, 6))
        /\ (aout.frame_id = 42 /\ aout.packet_seq = 0 /\ aout.payload_type = 1) =>
              /\ SubSeq(aout.header, 1, 6) = <<0, 0, 42, 0, 0, 1>>
              /\ 256 * aout.header[7] + aout.header[8]
                   = CrcReference(<<0, 0, 42, 0, 0, 1>>)

C14_Witness ==
    /\ aout.op = "_encode_header"
    /\ aout.ret = "ok"
    /\ aout.frame_id = 65794
    /\ aout.packet_seq = 258
    /\ SubSeq(aout.header, 1, 6) = <<1, 1, 2, 1, 2, 6>>

\* C15: encode_packet returns exactly samples_per_packet samples whatever the
\* payload length, zero-padded at the tail or truncated; 2400 samples for
\* sample_rate = 48000 and packet_duration = 0.05.
C15_PacketLength ==
    aout.op = "encode_packet" =>
        /\ aout.ret = "ok"
        /\ SegmentsLength(aout.packet, Len(aout.packet)) = aenc.samples_per_packet
        /\ (aenc.sample_rate = 48000 /\ aenc.packet_duration = 400) =>
              SegmentsLength(aout.packet, Len(aout.packet)) = 2400
        /\ \A k \in 1..Len(aout.packet) :
              aout.packet[k].part = "zeros" =>
                  /\ k = Len(aout.packet)
                  /\ aout.packet[k].len = aenc.samples_per_packet - aout.raw_len

C15_Witness ==
    /\ aout.op = "encode_packet"
    /\ aout.ret = "ok"
    /\ Len(aout.data) > 0
    /\ aout.raw_len > aenc.samples_per_packet
    /\ aenc.samples_per_packet = 2400
    /\ aout.packet[Len(aout.packet)].part = "payload"

\* The constellation tables of the protocol document.
SpecifiedPoint(modulation, v) ==
    CASE modulation = "BPSK" ->
           IF v = 0 THEN [re |-> 1, im |-> 0, norm |-> 1]
           ELSE [re |-> -1, im |-> 0, norm |-> 1]
      [] modulation = "QPSK" ->
           (CASE v = 0 -> [re |-> 1, im |-> 1, norm |-> 2]
              [] v = 1 -> [re |-> 1, im |-> -1, norm |-> 2]
              [] v = 2 -> [re |-> -1, im |-> 1, norm |-> 2]
              [] v = 3 -> [re |-> -1, im |-> -1, norm |-> 2])
      [] modulation = "QAM16" ->
           [re |-> 2 * (v \div 4) - 3, im |-> 2 * (v % 4) - 3, norm |-> 10]

\* The value of bits [i*b, (i+1)*b) of the MSB-first bit stream of data, for
\* b dividing 8 (i counted from 0).
GroupValue(data, i, b) ==
    (data[((i * b) \div 8) + 1] \div Pow2(8 - b - ((i * b) % 8))) % Pow2(b)

\* C16: subcarrier i carries the specified constellation point of bits
\* [i*b, (i+1)*b) of the MSB-first bit stream, and 0+0j when the stream has no
\* complete group for it; bits 11111111 in 16-QAM give two points (3, 3).
C16_Constellation ==
    aout.op = "_modulate_symbols" =>
        LET b == ModulationValue(aenc.modulation)
        IN  /\ Len(aout.symbols) = aenc.num_subcarriers
            /\ \A i \in 0..(aenc.num_subcarriers - 1) :
                  aout.symbols[i + 1] =
                      IF (i + 1) * b <= 8 * Len(aout.data)
                      THEN SpecifiedPoint(aenc.modulation, GroupValue(aout.data, i, b))
                      ELSE [re |-> 0, im |-> 0, norm |-> 1]
            /\ (aenc.modulation = "QAM16" /\ aout.data = <<255>>) =>
                  /\ aout.symbols[1] = [re |-> 3, im |-> 3, norm |-> 10]
                  /\ aout.symbols[2] = [re |-> 3, im |-> 3, norm |-> 10]

C16_Witness ==
    /\ aout.op = "_modulate_symbols"
    /\ aenc.modulation = "QAM16"
    /\ aout.data = <<1, 35, 69, 103, 137, 171, 205, 239>>
    /\ aout.symbols[2] = [re |-> -3, im |-> -1, norm |-> 10]
    /\ aenc.num_subcarriers = 48
    /\ aout.symbols[17] = [re |-> 0, im |-> 0, norm |-> 1]

ReceivedKeys == {rx.received_frames[i].key : i \in 1..Len(rx.received_frames)}

\* C17: total_frames is the total_frames of the first frame decoded and
\* never changes, and the transfer is complete only when the number of
\* buffered keys equals total_frames and the keys are exactly
\* 0 .. total_frames - 1.
C17_Completion ==
    /\ rx.total_frames = IF rx.arrivals = << >> THEN -1
                         ELSE rx.arrivals[1].total_frames
    /\ rx.state = "complete" =>
          /\ Len(rx.received_frames) = rx.total_frames
          /\ ReceivedKeys = 0..(rx.total_frames - 1)

\* The count test alone, and the latch.
C17_CountOnly ==
    /\ rx.total_frames = IF rx.arrivals = << >> THEN -1
                         ELSE rx.arrivals[1].total_frames
    /\ rx.state = "complete" => Len(rx.received_frames) = rx.total_frames

ArrivedIds == {rx.arrivals[i].frame_id : i \in 1..Len(rx.arrivals)}

\* The data of the last arrival with this frame_id.
LastData(id) ==
    rx.arrivals[CHOOSE i \in 1..Len(rx.arrivals) :
                    /\ rx.arrivals[i].frame_id = id
                    /\ \A j \in (i + 1)..Len(rx.arrivals) :
                          rx.arrivals[j].frame_id # id].data

ArrivedPairs == {<<rx.arrivals[i].frame_id, rx.arrivals[i].data>> :
                    i \in 1..Len(rx.arrivals)}

RepeatsIdentical ==
    \A p \in ArrivedPairs, q \in ArrivedPairs : p[1] = q[1] => p = q

\* The chunks of a set of <<frame_id, data>> pairs, one per frame_id, joined
\* by ascending frame_id.
RECURSIVE AscendingJoin(_)
AscendingJoin(pairs) ==
    IF pairs = {} THEN << >>
    ELSE LET last == CHOOSE p \in pairs : \A q \in pairs : q[1] <= p[1]
         IN  AscendingJoin(pairs \ {last}) \o last[2]

\* C18: the buffer holds exactly one entry per distinct frame_id received,
\* with the data of its last arrival; the reconstructed file is the buffered
\* chunks joined by ascending frame_id, and depends only on the set of frames
\* received when repeats carry identical data.
C18_Reassembly ==
    /\ ReceivedKeys = ArrivedIds
    /\ Len(rx.received_frames) = Cardinality(ArrivedIds)
    /\ \A i \in 1..Len(rx.received_frames) :
          rx.received_frames[i].value = LastData(rx.received_frames[i].key)
    /\ rx.saved =>
          rx.file = AscendingJoin({<<id, LastData(id)>> : id \in ArrivedIds})
    /\ (rx.saved /\ RepeatsIdentical) => rx.file = AscendingJoin(ArrivedPairs)

C18_Witness ==
    /\ rx.saved
    /\ Len(rx.arrivals) = 3
    /\ rx.arrivals[1].frame_id = 2
    /\ rx.arrivals[2].frame_id = 0
    /\ rx.arrivals[3].frame_id = 2
    /\ rx.arrivals[1].data = <<2, 3>>
    /\ rx.arrivals[3].data = <<1>>
    /\ rx.file = <<2, 3, 1>>


\* ---------------------------------------------------------------------
\* Metadata embedding (C21)
\* ---------------------------------------------------------------------

\* The cells of the 2x2 block that bit k of the metadata is given when the
\* blocks are laid left to right, then top to bottom, from (10, 10), five
\* blocks to a row of the 10 columns.
MetaBlock(k) ==
    { << 10 + 2 * (k % 5) + dx, 10 + 2 * (k \div 5) + dy >> :
        dx \in 0..1, dy \in 0..1 }

\* The bit a reader recovers from block k by majority: 1 when more than
\* half of the block's cells inside the region hold palette[1], 0 when more
\* than half hold palette[0], and -1 when the region holds no such majority.
MajorityBit(meta_region, k) ==
    LET cells == MetaBlock(k) \cap DOMAIN meta_region
        ones  == Cardinality({c \in cells : meta_region[c] = 1})
        zeros == Cardinality({c \in cells : meta_region[c] = 0})
    IN  IF 2 * ones > 4 THEN 1 ELSE IF 2 * zeros > 4 THEN 0 ELSE -1

\* C21: in every frame encode_frame returns, each of the 72 bits of the 9
\* metadata bytes has its own 2x2 block inside the region 10 <= x < 20,
\* 10 <= y < 18, filled with the palette entry of the bit, so that all 9
\* bytes are recovered by majority.
C21_MetadataEmbedded ==
    (pc \in {"encode_frame", "encode_data"} /\ ret = "ok") =>
        \A f \in 1..Len(frames) : \A k \in 0..71 :
            /\ MetaBlock(k) \subseteq MetaRegion
            /\ MajorityBit(frames[f].meta_region, k) = BitAt(frames[f].metadata, k)

\* What the region does hold: the blocks of the first 20 bits only.
C21_FirstTwentyBits ==
    (pc \in {"encode_frame", "encode_data"} /\ ret = "ok") =>
        \A f \in 1..Len(frames) :
            /\ \A k \in 0..19 :
                  MajorityBit(frames[f].meta_region, k) = BitAt(frames[f].metadata, k)
            /\ \A k \in 20..71 : MetaBlock(k) \cap MetaRegion = {}


(***************************************************************************)
(* Helper methods called directly                                          *)
(***************************************************************************)
OtherVars == <<enc, dec, pc, ret, payload, calls, frames, screen, result, probe,
               hist, scan, aenc, aout, rx>>

\* VisualEncoder._encode_metadata(frame_id, total_frames, data_length);
\* int.to_bytes raises OverflowError on a field that does not fit.
EncodeMetadata(frame_id, total_frames, data_length) ==
    /\ helper' =
          IF VisualEncoder_encode_metadata_raises(frame_id, total_frames, data_length)
          THEN [NoHelper EXCEPT !.op = "_encode_metadata", !.ret = "raise",
                                !.args = <<frame_id, total_frames, data_length>>]
          ELSE [NoHelper EXCEPT !.op = "_encode_metadata", !.ret = "ok",
                                !.args = <<frame_id, total_frames, data_length>>,
                                !.out = VisualEncoder_encode_metadata(
                                            frame_id, total_frames, data_length)]
    /\ UNCHANGED OtherVars

\* VisualEncoder._data_to_modules(data), of an encoder of bits_per_module bpm.
DataToModules(data, bpm) ==
    /\ helper' = [NoHelper EXCEPT !.op = "_data_to_modules", !.ret = "ok",
                                  !.args = <<data, bpm>>,
                                  !.out = VisualEncoder_data_to_modules(data, bpm),
                                  !.origin = data]
    /\ UNCHANGED OtherVars

\* VisualDecoder._modules_to_data(modules, bits_per_module), given the
\* modules the encoder's helper has just returned.
ModulesToData ==
    /\ helper.op = "_data_to_modules"
    /\ helper' = [NoHelper EXCEPT !.op = "_modules_to_data", !.ret = "ok",
                                  !.args = <<helper.out, helper.args[2]>>,
                                  !.out = VisualDecoder_modules_to_data(
                                              helper.out, helper.args[2]),
                                  !.origin = helper.origin]
    /\ UNCHANGED OtherVars

\* VisualDecoder._cluster_points(points, min_distance); origin keeps the
\* cluster lists the centres were computed from.
ClusterPoints(points, min_distance) ==
    /\ helper' = [NoHelper EXCEPT !.op = "_cluster_points", !.ret = "ok",
                                  !.args = <<points, min_distance>>,
                                  !.out = VisualDecoder_cluster_points(points, min_distance),
                                  !.origin = VisualDecoder_cluster_lists(points, min_distance)]
    /\ UNCHANGED OtherVars

\* Arguments of _encode_metadata: the ends of each field's range, the first
\* value past it, and the frame 0x123456 of 0x07D0 carrying 0x0400 bytes.
MetadataFrameIds == {0, 1, 1193046, 16777215, 16777216}
MetadataTotalFrames == {1, 2000, 65535, 65536}
MetadataDataLengths == {0, 1024, 65535, 65536}

\* Byte strings of up to MaxPackLen bytes over PackAlphabet.
MaxPackLen == 3
PackAlphabet == {0, 255, 165, 1}

RECURSIVE ByteStrings(_)
ByteStrings(n) ==
    IF n = 0 THEN { << >> }
    ELSE LET shorter == ByteStrings(n - 1)
         IN  shorter \cup { Append(d, b) : d \in {t \in shorter : Len(t) = n - 1},
                                           b \in PackAlphabet }

\* Template matches: two chains of matches 40 pixels apart and a far corner,
\* in every order, up to MaxPoints of them.
MaxPoints == 3
MatchPoints == { <<0, 0>>, <<40, 0>>, <<80, 0>>, <<500, 500>>, <<500, 540>> }

RECURSIVE PointLists(_)
PointLists(n) ==
    IF n = 0 THEN { << >> }
    ELSE LET shorter == PointLists(n - 1)
         IN  shorter \cup { Append(l, q) : l \in {t \in shorter : Len(t) = n - 1},
                                           q \in MatchPoints }

DistinctPointLists ==
    { l \in PointLists(MaxPoints) : \A i, j \in 1..Len(l) : i # j => l[i] # l[j] }

NextHelpers ==
    \/ \E f \in MetadataFrameIds, t \in MetadataTotalFrames, l \in MetadataDataLengths :
          EncodeMetadata(f, t, l)
    \/ \E d \in ByteStrings(MaxPackLen), bpm \in {1, 2, 3} : DataToModules(d, bpm)
    \/ ModulesToData
    \/ \E l \in DistinctPointLists : ClusterPoints(l, 50)

SpecHelpers == Init /\ [][NextHelpers]_vars

\* ---------------------------------------------------------------------
\* Metadata bytes (C22)
\* ---------------------------------------------------------------------

\* Byte i (0 = most significant) of the n-byte big-endian form of value.
BigEndianByte(value, n, i) ==
    LET weight == CASE n - 1 - i = 0 -> 1
                    [] n - 1 - i = 1 -> 256
                    [] n - 1 - i = 2 -> 65536
    IN  (value \div weight) % 256

\* C22: for frame_id < 2^24, total_frames < 2^16 and data_length < 2^16,
\* _encode_metadata returns exactly 9 bytes: frame_id as 3 big-endian
\* bytes, total_frames as 2, data_length as 2, then the sum of these 7
\* bytes modulo 2^16 as 2 big-endian bytes; frame 0x123456 of 0x07D0 with
\* 0x0400 bytes gives 12 34 56 07 D0 04 00 01 77.
C22_MetadataBytes ==
    (helper.op = "_encode_metadata"
     /\ helper.args[1] < 16777216 /\ helper.args[2] < 65536 /\ helper.args[3] < 65536) =>
        LET m == helper.out
            sum7 == m[1] + m[2] + m[3] + m[4] + m[5] + m[6] + m[7]
        IN  /\ helper.ret = "ok"
            /\ Len(m) = 9
            /\ \A i \in 0..2 : m[1 + i] = BigEndianByte(helper.args[1], 3, i)
            /\ \A i \in 0..1 : m[4 + i] = BigEndianByte(helper.args[2], 2, i)
            /\ \A i \in 0..1 : m[6 + i] = BigEndianByte(helper.args[3], 2, i)
            /\ \A i \in 0..1 : m[8 + i] = BigEndianByte(sum7 % 65536, 2, i)
            /\ (helper.args = <<1193046, 2000, 1024>> =>
                   m = <<18, 52, 86, 7, 208, 4, 0, 1, 119>>)

\* _encode_metadata has returned the bytes of frame 0x123456 of 0x07D0.
C22_Witness ==
    /\ helper.op = "_encode_metadata"
    /\ helper.ret = "ok"
    /\ helper.args = <<1193046, 2000, 1024>>
    /\ helper.out = <<18, 52, 86, 7, 208, 4, 0, 1, 119>>


\* ---------------------------------------------------------------------
\* Bit packing (C24)
\* ---------------------------------------------------------------------

\* C24: for every byte string d and bits_per_module b in {1, 2, 3}, every
\* module value _data_to_modules returns lies in [0, 2^b), and
\* _modules_to_data of these modules gives d back.
C24_BitPacking ==
    /\ helper.op = "_data_to_modules" =>
          \A i \in 1..Len(helper.out) :
              helper.out[i] >= 0 /\ helper.out[i] < Pow2(helper.args[2])
    /\ helper.op = "_modules_to_data" => helper.out = helper.origin

\* The round trip where no group of bits is left incomplete: d comes back
\* when b divides 8 * len(d); otherwise the bytes that come back are the
\* first ((8 * len(d)) div b) * b div 8 bytes of d.
C24_WholeGroups ==
    helper.op = "_modules_to_data" =>
        LET d == helper.origin
            b == helper.args[2]
            kept == (((8 * Len(d)) \div b) * b) \div 8
        IN  helper.out = SubSeq(d, 1, kept)


\* ---------------------------------------------------------------------
\* Clustering of template matches (C25)
\* ---------------------------------------------------------------------

\* The cluster lists as sets of points.
ClusterSets(points, lists) ==
    { { points[i] : i \in lists[c] } : c \in 1..Len(lists) }

\* The points of `points` joined to point p by a chain of points each
\* nearer than min_distance to the next: p's connected component.
RECURSIVE Component(_, _, _)
Component(points, min_distance, reached) ==
    LET more == { q \in { points[i] : i \in 1..Len(points) } :
                    \E p \in reached : Near(p, q, min_distance) }
    IN  IF more \subseteq reached THEN reached
        ELSE Component(points, min_distance, reached \cup more)

Components(points, min_distance) ==
    { Component(points, min_distance, {points[i]}) : i \in 1..Len(points) }

\* The orders in which the same points can be passed.
Reorderings(points) ==
    { q \in [1..Len(points) -> { points[i] : i \in 1..Len(points) }] :
        \A i \in 1..Len(points) : \E j \in 1..Len(points) : q[j] = points[i] }

\* C25: _cluster_points with threshold 50 is single-link clustering: each
\* point is in exactly one cluster, two points nearer than 50 to each other
\* are in the same cluster, the clusters are the connected components of
\* that relation, and they do not depend on the order of the points.
C25_SingleLink ==
    helper.op = "_cluster_points" =>
        LET points == helper.args[1]
            lists == helper.origin
            sets == ClusterSets(points, lists)
        IN  /\ \A i \in 1..Len(points) :
                  Cardinality({c \in 1..Len(lists) : i \in lists[c]}) = 1
            /\ \A i, j \in 1..Len(points) :
                  Near(points[i], points[j], 50) =>
                      \E c \in 1..Len(lists) : i \in lists[c] /\ j \in lists[c]
            /\ sets = Components(points, 50)
            /\ \A q \in Reorderings(points) :
                  ClusterSets(q, VisualDecoder_cluster_lists(q, 50)) = sets

\* What the loop does give: every point is in exactly one cluster, and a
\* cluster is its first point with the later unclaimed points nearer than
\* 50 to that first point.
C25_SeededGroups ==
    helper.op = "_cluster_points" =>
        LET points == helper.args[1]
            lists == helper.origin
        IN  /\ \A i \in 1..Len(points) :
                  Cardinality({c \in 1..Len(lists) : i \in lists[c]}) = 1
            /\ \A c \in 1..Len(lists) :
                  LET seed == CHOOSE i \in lists[c] : \A j \in lists[c] : i <= j
                  IN  \A j \in lists[c] :
                         j = seed \/ Near(points[seed], points[j], 50)
            /\ Len(helper.out) = Len(lists)


\* ---------------------------------------------------------------------
\* Reed-Solomon parameters of the two sides (C26)
\* ---------------------------------------------------------------------

\* C26: a decoder constructed with the encoder's module_count and error
\* correction level has the encoder's Reed-Solomon parameters, in every
\* mode: the same total_symbols and the same parity_symbols.
C26_SameRSParameters ==
    (enc.live /\ dec.live
     /\ dec.expected_module_count = enc.module_count /\ dec.ecc = enc.ecc) =>
        /\ VisualDecoder_calculate_total_symbols(dec.expected_module_count)
              = VisualEncoder_calculate_total_symbols(enc.mode, enc.module_count)
        /\ dec.nsym = enc.nsym

\* The parameters agree where the encoder's mode has 2 bits per module.
C26_BalancedOnly ==
    (enc.live /\ dec.live
     /\ dec.expected_module_count = enc.module_count /\ dec.ecc = enc.ecc
     /\ bits_per_module(enc.mode) = 2) =>
        /\ VisualDecoder_calculate_total_symbols(dec.expected_module_count)
              = VisualEncoder_calculate_total_symbols(enc.mode, enc.module_count)
        /\ dec.nsym = enc.nsym


(***************************************************************************)
(* AudioPacketBuilder (audio_encoder.py)                                   *)
(***************************************************************************)
FRAME_SYNC == 1

PRNG_SEEDS == 3

\* An integer wider than the model's integers is the sequence of its 16-bit
\* words, most significant first: 4 words for a 'Q' field, 2 for an 'I'
\* field.  struct.pack('>...') lays the fields out big-endian, unpadded.
WordsToBytes(words) ==
    [i \in 1..(2 * Len(words)) |->
        IF i % 2 = 1 THEN words[(i + 1) \div 2] \div 256 ELSE words[i \div 2] % 256]

\* struct.pack('>Q', ack_bitmap)
StructPack_Q(ack_bitmap) == WordsToBytes(ack_bitmap)

\* struct.pack('>BIQ', algorithm, seed, length); struct.error when algorithm
\* is not an unsigned byte.
StructPack_BIQ_raises(algorithm, seed, length) == algorithm < 0 \/ algorithm > 255

StructPack_BIQ(algorithm, seed, length) ==
    <<algorithm>> \o WordsToBytes(seed) \o WordsToBytes(length)

\* builder.build_ack_packet(frame_id, ack_bitmap, packet_seq)
BuildAckPacket(frame_id, ack_bitmap, packet_seq) ==
    /\ aenc.live
    /\ aout' = [AudioEncoder_encode_packet_call(aenc, StructPack_Q(ack_bitmap),
                                                frame_id, packet_seq, FRAME_SYNC)
                   EXCEPT !.op = "build_ack_packet"]
    /\ UNCHANGED <<VisualVars, aenc, rx>>

\* builder.build_prng_packet(frame_id, algorithm, seed, length)
BuildPrngPacket(frame_id, algorithm, seed, length) ==
    /\ aenc.live
    /\ aout' = IF StructPack_BIQ_raises(algorithm, seed, length)
               THEN [NoAudioOut EXCEPT !.op = "build_prng_packet", !.ret = "raise",
                                       !.frame_id = frame_id,
                                       !.payload_type = PRNG_SEEDS]
               ELSE [AudioEncoder_encode_packet_call(
                         aenc, StructPack_BIQ(algorithm, seed, length),
                         frame_id, 0, PRNG_SEEDS)
                        EXCEPT !.op = "build_prng_packet"]
    /\ UNCHANGED <<VisualVars, aenc, rx>>

\* Encoders of 48000 Hz and 50 ms packets: the default 48 subcarriers, and
\* 12 and 4, whose BPSK symbols carry 12 and 4 bits.
BuilderSubcarrierCounts == {48, 12, 4}

\* Payload lengths around the capacity of one symbol of each modulation of
\* the default encoder (6, 12 and 24 bytes) and the documented maximum; a
\* few symbols' worth for the narrow encoders.
BuilderPayloadLengths(a) ==
    IF a.num_subcarriers = 48 THEN {0, 1, 3, 6, 7, 8, 12, 13, 24, 25, 48, 150}
    ELSE {0, 1, 2, 3, 6, 7}

AckBitmaps == { <<0, 0, 0, 0>>, <<0, 0, 0, 5>>, <<65535, 65535, 65535, 65535>> }

\* <<algorithm, seed, length>>
PrngArgs ==
    { <<0, <<0, 42>>, <<0, 0, 0, 1024>> >>,
      <<1, <<65535, 65535>>, <<0, 0, 1, 0>> >>,
      <<256, <<0, 42>>, <<0, 0, 0, 1024>> >> }

NextBuilder ==
    \/ \E n \in BuilderSubcarrierCounts, m \in Modulations :
          NewAudioEncoder(48000, n, m, 400)
    \/ \E len \in BuilderPayloadLengths(aenc) : EncodePacket(Bytes(len, 1), 42, 0, FRAME_SYNC)
    \/ \E b \in AckBitmaps : BuildAckPacket(42, b, 0)
    \/ \E a \in PrngArgs : BuildPrngPacket(42, a[1], a[2], a[3])

SpecBuilder == Init /\ [][NextBuilder]_vars

\* ---------------------------------------------------------------------
\* Packet layout (C23)
\* ---------------------------------------------------------------------

PacketOps == {"encode_packet", "build_ack_packet", "build_prng_packet"}

\* The layout of the packet of step 5 when one OFDM symbol is given
\* `size` bytes of payload and the payload makes `count` symbols.
PacketLayout(size, count) ==
    LET raw == aout.raw
        header == AudioEncoder_encode_header(aout.frame_id, aout.packet_seq,
                                             aout.payload_type)
    IN  /\ Len(raw) = 4 + count
        /\ raw[1].part = "preamble"
        /\ raw[2].part = "sync"
        /\ raw[3].part = "header"
        /\ raw[3].symbols = AudioEncoder_modulate_symbols(aenc, SubSeq(header, 1, 4))
        /\ raw[4].part = "header"
        /\ raw[4].symbols = AudioEncoder_modulate_symbols(aenc, SubSeq(header, 5, 8))
        /\ \A k \in 1..count :
              LET chunk == Slice(aout.data, k - 1, size)
              IN  /\ raw[4 + k].part = "payload"
                  /\ raw[4 + k].symbols =
                        AudioEncoder_modulate_symbols(aenc,
                            chunk \o Zeros(size - Len(chunk)))

\* C23: before the final pad or cut, the packet is preamble, sync, an OFDM
\* symbol of header bytes 0-3, one of header bytes 4-7, then the payload's
\* OFDM symbols in payload order, the last one's input zero-padded; there
\* are exactly ceil(payload_len / (N * bits_per_symbol / 8)) payload
\* symbols, for every num_subcarriers N and modulation.
C23_PacketLayout ==
    (aout.op = "encode_packet" /\ aenc.num_subcarriers > 0) =>
        LET bits == aenc.num_subcarriers * ModulationValue(aenc.modulation)
        IN  /\ aout.ret = "ok"
            /\ Len(aout.raw) = 4 + CeilDiv(8 * Len(aout.data), bits)
            /\ bits % 8 = 0 =>
                  PacketLayout(bits \div 8, CeilDiv(8 * Len(aout.data), bits))

\* The layout where a symbol carries at least one byte: the payload is cut
\* into chunks of (N * bits_per_symbol) // 8 bytes.
C23_WholeBytes ==
    (aout.op = "encode_packet" /\ AudioEncoder_bits_per_symbol_set(aenc) >= 1) =>
        LET size == AudioEncoder_bits_per_symbol_set(aenc)
        IN  /\ aout.ret = "ok"
            /\ PacketLayout(size, CeilDiv(Len(aout.data), size))


\* ---------------------------------------------------------------------
\* Packet capacity (C27)
\* ---------------------------------------------------------------------

\* The encoder has the default sample rate, subcarrier count and packet
\* duration (48000 Hz, 48 subcarriers, 0.05 s).
DefaultAudioParameters ==
    aenc.sample_rate = 48000 /\ aenc.num_subcarriers = 48 /\ aenc.packet_duration = 400

\* Every payload OFDM symbol of the packet of step 5 is in the returned
\* packet with all its samples.
PayloadSymbolsWhole ==
    \A k \in 1..Len(aout.raw) :
        aout.raw[k].part = "payload" =>
            /\ k <= Len(aout.packet)
            /\ aout.packet[k] = aout.raw[k]

\* C27: with the default parameters and each modulation, for every payload
\* of at most 150 bytes, the 8 bytes of build_ack_packet and the 13 bytes
\* of build_prng_packet among them, preamble, sync, the 2 header symbols
\* and all payload symbols fit in samples_per_packet samples, so the cut of
\* step 6 never removes samples of a payload OFDM symbol.
C27_PayloadFits ==
    (aout.op \in PacketOps /\ aout.ret = "ok" /\ DefaultAudioParameters
     /\ Len(aout.data) <= 150) =>
        /\ aout.raw_len <= aenc.samples_per_packet
        /\ PayloadSymbolsWhole

\* What does fit: the payloads of one OFDM symbol, 6, 12 or 24 bytes for
\* BPSK, QPSK and 16-QAM; a longer payload has symbols cut or dropped.
C27_OneSymbolFits ==
    (aout.op \in PacketOps /\ aout.ret = "ok" /\ DefaultAudioParameters) =>
        (PayloadSymbolsWhole
            <=> Len(aout.data) <= AudioEncoder_bits_per_symbol_set(aenc))

====
